---- MODULE Spec2Model ----
(***************************************************************************)
(* A model of the pay_model settlement library: the segmented vector       *)
(* commitment (SegmentVC) with its rolling root history                    *)
(* (CircularHashStore), the overpay validator, the profit calculator and   *)
(* the proxy settlement aggregator.                                        *)
(*                                                                         *)
(* Byte strings and digests are terms.  Raw(n) is the big-endian encoding  *)
(* of the integer n in the width its position fixes; keccak256(p) is the   *)
(* digest of the concatenation of the fields of the sequence p.  Two       *)
(* digests are equal exactly when their preimages are: the hash is         *)
(* collision free.                                                         *)
(***************************************************************************)
EXTENDS Integers, Sequences, FiniteSets, TLC

VARIABLES
    store,      \* a CircularHashStore
    added,      \* history: the hashes add_hash accepted, in order
    storeRes,   \* outcome of the last add_hash call
    vc,         \* a SegmentVC
    vcRes,      \* outcome of the last SegmentVC operation
    ocIn,       \* a ReceiptsOverpayChecker: channel, pay_id_infos, settled_payments
    ocOut,      \* outcome of the last call on the overpay checker
    prIn,       \* a ReceiptsProfitCalculator: receipts, service_configs
    prOut,      \* outcome of calculate_profits
    stIn,       \* the arguments of ProxySettlementAggregator::aggregate
    stl,        \* a ProxySettlementResult r and the receipts root R it goes with
    stOrig,     \* history: stl before it was changed
    stRes,      \* outcome of the last step on the settlement result
    svc,        \* a SegmentVC driven through both of its modes
    svcPrev,    \* history: svc before the last operation
    svcOp,      \* the last operation on svc, its arguments and its outcome
    svcKeys,    \* history: the keys svc accepted, in order
    svcRoots,   \* history: the roots svc recorded, in order
    svcMoments, \* history: the root and the stored values after each operation
    cnIn,       \* a list of PayIdInfos and a list of receipts
    cnOut,      \* outcomes of canonicalizing cnIn in two orders
    pcIn,       \* a ReceiptsProfitCalculator and the batch its proof came from
    pcOut,      \* outcome of ReceiptsProfitCalculator::calculate
    sgIn,       \* a Payment, the PaymentSettledByProxy made of it, the keys used
    sgOut,      \* outcome of the last signing, recovery or verification
    rcv,        \* a ReceiverSettler
    rcvOp,      \* the last process_proxy_settlement call and its outcome
    rcvSum,     \* history: the receiver_profit of the successful calls, summed
    twIn,       \* two lists of (key, value) entries
    twOut,      \* the trees built from the two lists
    ppIn,       \* a batch of receipts on its way through the pipeline
    ppOut,      \* the outcome of each stage of the pipeline so far
    mp,         \* a MerkleProof handed to verify
    mpOut       \* how mp was made and what verify returned

storeVars == <<store, added, storeRes>>
treeVars == <<vc, vcRes>>
overpayVars == <<ocIn, ocOut>>
profitVars == <<prIn, prOut>>
settleVars == <<stIn, stl, stOrig, stRes>>
modeVars == <<svc, svcPrev, svcOp, svcKeys, svcRoots, svcMoments>>
canonVars == <<cnIn, cnOut>>
calcVars == <<pcIn, pcOut>>

\* the components the first five specifications leave alone
signVars == <<sgIn, sgOut>>
settlerVars == <<rcv, rcvOp, rcvSum>>
twinVars == <<twIn, twOut>>
pipeVars == <<ppIn, ppOut>>
proofVars == <<mp, mpOut>>
fourthVars == <<pipeVars, proofVars>>
thirdVars == <<signVars, settlerVars, twinVars, fourthVars>>
laterVars == <<modeVars, canonVars, calcVars, thirdVars>>

vars == <<storeVars, treeVars, overpayVars, profitVars, settleVars, laterVars>>

-----------------------------------------------------------------------------
(* Bytes and hashing: src/src/lib.rs *)

Raw(n) == [k |-> "raw", n |-> n, pre |-> <<>>]

\* B256::ZERO / B256::default()
ZERO == Raw(0)

keccak256(data) == [k |-> "hash", n |-> 0, pre |-> data]

keccak256_more(prev_hash, new_data) == keccak256(<<prev_hash>> \o new_data)

Contains(s, x) == \E i \in 1..Len(s) : s[i] = x

Min(a, b) == IF a < b THEN a ELSE b

\* The element of a one-element set.  In {e : x \in {v}} the result v of a
\* call is computed once and named x, as a `let` binding of the code.
The(S) == CHOOSE x \in S : TRUE

-----------------------------------------------------------------------------
(* CircularHashStore: src/src/models/hashstore.rs *)

EMPTY_HASH == ZERO

CircularHashStore_new(capacity) ==
    [hashes |-> <<>>, history_hash |-> ZERO, total_added |-> 0,
     capacity |-> capacity]

current_size(s) == Len(s.hashes)

total_added(s) == s.total_added

\* Evict with the newest entry removed in place of the oldest.
Evict_newest(s) ==
    LET old_hash == s.hashes[Len(s.hashes)]
    IN  [s EXCEPT !.hashes = SubSeq(s.hashes, 1, Len(s.hashes) - 1),
                  !.history_hash =
                      IF s.history_hash = ZERO
                      THEN old_hash
                      ELSE keccak256_more(s.history_hash, <<old_hash>>)]

\* Evict with the first eviction chained onto the zero hash like the others.
Evict_chainFirst(s) ==
    LET old_hash == s.hashes[1]
    IN  [s EXCEPT !.hashes = Tail(s.hashes),
                  !.history_hash = keccak256_more(s.history_hash, <<old_hash>>)]

\* The eviction step of add_hash: the oldest entry leaves the window and is
\* folded into history_hash.
Evict(s) ==
    LET old_hash == s.hashes[1]
    IN  [s EXCEPT !.hashes = Tail(s.hashes),
                  !.history_hash =
                      IF s.history_hash = ZERO
                      THEN old_hash
                      ELSE keccak256_more(s.history_hash, <<old_hash>>)]

\* add_hash: res is "ok", "err" (the Err return) or "panic" (Vec::remove(0)
\* on an empty vector, when the capacity is 0).
add_hash(s, hash) ==
    IF hash = EMPTY_HASH
    THEN [res |-> "err", store |-> s, position |-> 0]
    ELSE IF Len(s.hashes) = s.capacity /\ Len(s.hashes) = 0
    THEN [res |-> "panic", store |-> s, position |-> 0]
    ELSE LET t == IF Len(s.hashes) = s.capacity THEN Evict(s) ELSE s
         IN  [res |-> "ok",
              position |-> Len(t.hashes),
              store |-> [t EXCEPT !.hashes = Append(t.hashes, hash),
                                  !.total_added = @ + 1]]

RECURSIVE FoldProof(_, _)
FoldProof(current_hash, history_proof) ==
    IF history_proof = <<>>
    THEN current_hash
    ELSE FoldProof(keccak256_more(current_hash, <<Head(history_proof)>>),
                   Tail(history_proof))

check_hash(s, hash, history_proof) ==
    IF Contains(s.hashes, hash)
    THEN TRUE
    ELSE IF history_proof # <<>>
    THEN FoldProof(hash, history_proof) = s.history_hash
    ELSE FALSE

-----------------------------------------------------------------------------
(* SegmentVC: src/src/models/segment_vc.rs *)

SEGMENT_SIZE == 16

\* HashMap::insert
MapInsert(m, key, val) ==
    [x \in (DOMAIN m) \cup {key} |-> IF x = key THEN val ELSE m[x]]

EmptyMap == [x \in {} |-> ZERO]

\* `while v.len() <= index { v.push(fill) }`
PadTo(v, index, fill) ==
    IF Len(v) <= index
    THEN v \o [i \in 1..(index + 1 - Len(v)) |-> fill]
    ELSE v

NewSegment ==
    [values |-> <<>>, chunk_hashes |-> <<>>, root |-> ZERO, size |-> 0]

SegmentVC_new(capacity) ==
    [segments |-> <<NewSegment>>,
     total_size |-> 0,
     root_hash |-> ZERO,
     merkle_nodes |-> EmptyMap,
     indices |-> EmptyMap,
     root_history |-> CircularHashStore_new(capacity),
     building_mode |-> "Built"]

\* get_segment_and_index that counts slots from one.
get_segment_and_index_fromOne(global_index) ==
    [segment_index |-> (global_index + 1) \div SEGMENT_SIZE,
     local_index |-> (global_index + 1) % SEGMENT_SIZE]

get_segment_and_index(global_index) ==
    [segment_index |-> global_index \div SEGMENT_SIZE,
     local_index |-> global_index % SEGMENT_SIZE]

\* The chunk hash of every value of a segment, in slot order.
ChunkHashes(values) == [i \in 1..Len(values) |-> keccak256(<<values[i]>>)]

update_segment(t, segment_index, local_index, value) ==
    LET seg    == t.segments[segment_index + 1]
        values == [PadTo(seg.values, local_index, ZERO)
                      EXCEPT ![local_index + 1] = value]
        chunks == ChunkHashes(values)
    IN  [t EXCEPT !.segments[segment_index + 1] =
            [seg EXCEPT !.values = values,
                        !.chunk_hashes = chunks,
                        !.root = keccak256(chunks)]]

\* `current_level_nodes.chunks(SEGMENT_SIZE)`, each group hashed to its parent.
ParentLevel(nodes) ==
    [g \in 1..((Len(nodes) + SEGMENT_SIZE - 1) \div SEGMENT_SIZE) |->
        keccak256(SubSeq(nodes, (g - 1) * SEGMENT_SIZE + 1,
                         Min(g * SEGMENT_SIZE, Len(nodes))))]

\* The `while current_level_nodes.len() > 1` loop of update_merkle_tree.
RECURSIVE BuildLevels(_, _, _)
BuildLevels(current_level_nodes, level, merkle_nodes) ==
    IF Len(current_level_nodes) > 1
    THEN LET next_level == ParentLevel(current_level_nodes)
         IN  BuildLevels(next_level, level + 1,
                         MapInsert(merkle_nodes, level + 1, next_level))
    ELSE [top |-> current_level_nodes, merkle_nodes |-> merkle_nodes]

\* The root recorded into the history store at the end of update_merkle_tree.
RecordRoot(history, root) == add_hash(history, root)

update_merkle_tree(t) ==
    LET level0 == [i \in 1..Len(t.segments) |-> t.segments[i].root]
        built  == BuildLevels(level0, 0, MapInsert(t.merkle_nodes, 0, level0))
        root   == built.top[1]
        t1     == [t EXCEPT !.merkle_nodes = built.merkle_nodes,
                            !.root_hash = root]
        rec    == RecordRoot(t.root_history, root)
    IN  IF rec.res = "ok"
        THEN [res |-> "ok", vc |-> [t1 EXCEPT !.root_history = rec.store]]
        ELSE IF rec.res = "err"
        THEN [res |-> "HashStoreError", vc |-> t1]
        ELSE [res |-> "panic", vc |-> t1]

\* insert that recomputes the tree in Building mode too.
insert_eager(t, key, value) ==
    IF key \in DOMAIN t.indices
    THEN [res |-> "KeyExists", vc |-> t]
    ELSE LET p        == get_segment_and_index(t.total_size)
             segments == PadTo(t.segments, p.segment_index, NewSegment)
             seg      == segments[p.segment_index + 1]
             values   == [PadTo(seg.values, p.local_index, ZERO)
                             EXCEPT ![p.local_index + 1] = value]
             t1 == [t EXCEPT
                      !.segments = [segments EXCEPT
                          ![p.segment_index + 1] = [seg EXCEPT !.values = values]],
                      !.total_size = t.total_size + 1,
                      !.indices = MapInsert(t.indices, key, t.total_size + 1)]
         IN  update_merkle_tree(
                 update_segment(t1, p.segment_index, p.local_index, value))

\* insert that commits to the key together with the value
insert_keyed(t, key, value) == insert_eager(t, key, keccak256(<<key, value>>))

insert(t, key, value) ==
    IF key \in DOMAIN t.indices
    THEN [res |-> "KeyExists", vc |-> t]
    ELSE LET p        == get_segment_and_index(t.total_size)
             segments == PadTo(t.segments, p.segment_index, NewSegment)
             seg      == segments[p.segment_index + 1]
             values   == [PadTo(seg.values, p.local_index, ZERO)
                             EXCEPT ![p.local_index + 1] = value]
             t1 == [t EXCEPT
                      !.segments = [segments EXCEPT
                          ![p.segment_index + 1] = [seg EXCEPT !.values = values]],
                      !.total_size = t.total_size + 1,
                      !.indices = MapInsert(t.indices, key, t.total_size + 1)]
         IN  IF t.building_mode = "Built"
             THEN update_merkle_tree(
                      update_segment(t1, p.segment_index, p.local_index, value))
             ELSE [res |-> "ok", vc |-> t1]

\* s without the element at 0-based position index (s itself when there is none)
Without(s, index) ==
    IF index >= Len(s)
    THEN s
    ELSE SubSeq(s, 1, index) \o SubSeq(s, index + 2, Len(s))

\* LevelProofs that keeps the segment index while it climbs.
RECURSIVE LevelProofs_noClimb(_, _, _)
LevelProofs_noClimb(t, level, current_index) ==
    IF level >= Cardinality(DOMAIN t.merkle_nodes) - 1
    THEN <<>>
    ELSE LET nodes       == t.merkle_nodes[level]
             group_start == (current_index \div SEGMENT_SIZE) * SEGMENT_SIZE
             group_end   == Min(group_start + SEGMENT_SIZE, Len(nodes))
             group       == SubSeq(nodes, group_start + 1, group_end)
         IN  <<[level |-> level,
                node_index |-> current_index % SEGMENT_SIZE,
                siblings |-> Without(group, current_index - group_start)]>>
             \o LevelProofs_noClimb(t, level + 1, current_index)

\* The level proofs of generate_proof, from `level` up to the level below the top.
RECURSIVE LevelProofs(_, _, _)
LevelProofs(t, level, current_index) ==
    IF level >= Cardinality(DOMAIN t.merkle_nodes) - 1
    THEN <<>>
    ELSE LET nodes       == t.merkle_nodes[level]
             group_start == (current_index \div SEGMENT_SIZE) * SEGMENT_SIZE
             group_end   == Min(group_start + SEGMENT_SIZE, Len(nodes))
             group       == SubSeq(nodes, group_start + 1, group_end)
         IN  <<[level |-> level,
                node_index |-> current_index % SEGMENT_SIZE,
                siblings |-> Without(group, current_index - group_start)]>>
             \o LevelProofs(t, level + 1, current_index \div SEGMENT_SIZE)

NoProof ==
    [value_proof |-> [value |-> ZERO, chunk_hash |-> ZERO],
     segment_proof |-> [chunk_index |-> 0, siblings |-> <<>>],
     level_proofs |-> <<>>,
     root_hash |-> ZERO]

\* generate_proof: "panic" is an index out of bounds (a staged value without
\* its chunk hash) or the underflow of `merkle_nodes.len() - 1`.
generate_proof(t, key) ==
    IF key \notin DOMAIN t.indices
    THEN [res |-> "KeyNotFound", proof |-> NoProof]
    ELSE LET p   == get_segment_and_index(t.indices[key] - 1)
             seg == t.segments[p.segment_index + 1]
         IN  IF \/ p.local_index >= Len(seg.values)
                \/ p.local_index >= Len(seg.chunk_hashes)
                \/ Cardinality(DOMAIN t.merkle_nodes) = 0
             THEN [res |-> "panic", proof |-> NoProof]
             ELSE [res |-> "ok",
                   proof |->
                     [value_proof |->
                         [value |-> seg.values[p.local_index + 1],
                          chunk_hash |-> seg.chunk_hashes[p.local_index + 1]],
                      segment_proof |->
                         [chunk_index |-> p.local_index,
                          siblings |-> Without(seg.chunk_hashes, p.local_index)],
                      level_proofs |-> LevelProofs(t, 0, p.segment_index),
                      root_hash |-> t.root_hash]]

\* siblings with x placed at 0-based position index
PlaceAt(siblings, index, x) ==
    SubSeq(siblings, 1, index) \o <<x>> \o SubSeq(siblings, index + 1, Len(siblings))

\* The level loop of MerkleProof::verify; panic is `level_nodes[node_index]`
\* out of bounds.
RECURSIVE FoldLevels(_, _)
FoldLevels(current_hash, level_proofs) ==
    IF level_proofs = <<>>
    THEN [panic |-> FALSE, hash |-> current_hash]
    ELSE LET proof == Head(level_proofs)
         IN  IF proof.node_index > Len(proof.siblings)
             THEN [panic |-> TRUE, hash |-> current_hash]
             ELSE FoldLevels(
                      keccak256(PlaceAt(proof.siblings, proof.node_index,
                                        current_hash)),
                      Tail(level_proofs))

\* MerkleProof::verify: "true", "false", or "panic" (an index out of bounds).
MerkleProof_verify(proof) ==
    LET calculated_chunk == keccak256(<<proof.value_proof.value>>)
        sp == proof.segment_proof
    IN  IF calculated_chunk # proof.value_proof.chunk_hash
        THEN "false"
        ELSE IF Len(sp.siblings) = 0 /\ proof.root_hash = calculated_chunk
        THEN "true"
        ELSE IF sp.chunk_index > Len(sp.siblings)
        THEN "panic"
        ELSE LET segment_root ==
                     keccak256(PlaceAt(sp.siblings, sp.chunk_index,
                                       proof.value_proof.chunk_hash))
                 top == FoldLevels(segment_root, proof.level_proofs)
             IN  IF top.panic THEN "panic"
                 ELSE IF top.hash = proof.root_hash THEN "true" ELSE "false"

get_value(t, key) ==
    LET p == get_segment_and_index(t.indices[key] - 1)
    IN  t.segments[p.segment_index + 1].values[p.local_index + 1]

\* verify: "KeyNotFound", "true" or "false".  The history store is asked with
\* an empty history proof.
verify(t, key, value, history_root) ==
    IF key \notin DOMAIN t.indices
    THEN "KeyNotFound"
    ELSE LET p == get_segment_and_index(t.indices[key] - 1)
             segment == t.segments[p.segment_index + 1]
         IN  IF value # segment.values[p.local_index + 1]
             THEN "false"
             ELSE IF \/ history_root = t.root_hash
                     \/ check_hash(t.root_history, history_root, <<>>)
             THEN "true"
             ELSE "false"

\* update: the owning segment and the upper tree are recomputed in either mode.
update(t, key, value) ==
    IF key \notin DOMAIN t.indices
    THEN [res |-> "KeyNotFound", vc |-> t]
    ELSE LET p == get_segment_and_index(t.indices[key] - 1)
         IN  update_merkle_tree(
                 update_segment(t, p.segment_index, p.local_index, value))

\* start_building
start_building(t) == [t EXCEPT !.building_mode = "Building"]

\* The nested loops of finish_building, from slot (segment_index, local_index)
\* on: every staged value that is not the default gets its segment recomputed.
RECURSIVE RecomputeSegments(_, _, _)
RecomputeSegments(t, segment_index, local_index) ==
    IF segment_index >= Len(t.segments)
    THEN t
    ELSE LET values == t.segments[segment_index + 1].values
         IN  IF local_index >= Len(values)
             THEN RecomputeSegments(t, segment_index + 1, 0)
             ELSE IF values[local_index + 1] # ZERO
             THEN The({RecomputeSegments(t1, segment_index, local_index + 1) :
                          t1 \in {update_segment(t, segment_index, local_index,
                                                 values[local_index + 1])}})
             ELSE RecomputeSegments(t, segment_index, local_index + 1)

\* finish_building that recomputes in either mode.
finish_building_anyMode(t) ==
    The({The({IF r.res = "ok"
              THEN [res |-> "ok",
                    vc |-> [r.vc EXCEPT !.building_mode = "Built"],
                    root |-> r.vc.root_hash]
              ELSE [res |-> r.res, vc |-> r.vc, root |-> ZERO] :
             r \in {IF Len(t1.segments) > 0
                    THEN update_merkle_tree(t1)
                    ELSE [res |-> "ok", vc |-> t1]}}) :
        t1 \in {RecomputeSegments(t, 0, 0)}})

\* finish_building: on an error the tree stays in Building mode.
finish_building(t) ==
    IF t.building_mode = "Building"
    THEN The({The({IF r.res = "ok"
                   THEN [res |-> "ok",
                         vc |-> [r.vc EXCEPT !.building_mode = "Built"],
                         root |-> r.vc.root_hash]
                   ELSE [res |-> r.res, vc |-> r.vc, root |-> ZERO] :
                  r \in {IF Len(t1.segments) > 0
                         THEN update_merkle_tree(t1)
                         ELSE [res |-> "ok", vc |-> t1]}}) :
             t1 \in {RecomputeSegments(t, 0, 0)}})
    ELSE [res |-> "ok", vc |-> t, root |-> t.root_hash]

\* The insert loop of insert_batch: it stops at the first error.
RECURSIVE InsertAll(_, _)
InsertAll(t, entries) ==
    IF entries = <<>>
    THEN [res |-> "ok", vc |-> t]
    ELSE The({IF r.res # "ok" THEN r ELSE InsertAll(r.vc, Tail(entries)) :
                 r \in {insert(t, Head(entries).key, Head(entries).value)}})

insert_batch(t, entries) ==
    The({IF r.res # "ok"
         THEN [res |-> r.res, vc |-> r.vc, root |-> ZERO]
         ELSE finish_building(r.vc) :
            r \in {InsertAll(start_building(t), entries)}})

-----------------------------------------------------------------------------
(* The U256 type.  Its width is 256 bits in the code; the model keeps the     *)
(* arithmetic and scales the width down to U256Bits.                         *)

\* width of a U256 in the model
U256Bits == 24

U256_MAX == 2^U256Bits - 1

\* `+` and `+=` on U256 wrap on overflow
wrapping_add(a, b) == (a + b) % (U256_MAX + 1)

None == [some |-> FALSE, v |-> 0]

Some(v) == [some |-> TRUE, v |-> v]

\* an addition that wraps in place of the checked one
checked_add_wrapping(a, b) == Some(wrapping_add(a, b))

checked_add(a, b) == IF a > U256_MAX - b THEN None ELSE Some(a + b)

checked_sub(a, b) == IF b > a THEN None ELSE Some(a - b)

checked_mul(a, b) == IF b # 0 /\ a > U256_MAX \div b THEN None ELSE Some(a * b)

checked_div(a, b) == IF b = 0 THEN None ELSE Some(a \div b)

-----------------------------------------------------------------------------
(* Records: src/src/models/pay_id_infos.rs, src/src/receipts/mod.rs *)

\* a stable sort of s as Vec::sort_by, rank[i] being the sort key of s[i]
StableSortBy(s, rank) ==
    LET pos(i) == 1 + Cardinality({j \in 1..Len(s) :
                        \/ rank[j] < rank[i]
                        \/ rank[j] = rank[i] /\ j < i})
    IN  [p \in 1..Len(s) |-> s[CHOOSE i \in 1..Len(s) : pos(i) = p]]

\* eth_address_to_B256: the address in the low 20 bytes of a 32-byte word
eth_address_to_B256(addr) == Raw(addr)

PayIdInfo(id, amount, sender, proxy) ==
    [id |-> id, amount |-> amount, sender |-> sender, proxy |-> proxy,
     state |-> 1, created_at |-> 1000, closing_time |-> 2000]

PayIdInfo_hash(info) ==
    keccak256(<<Raw(info.id), Raw(info.amount), Raw(info.sender),
                Raw(info.proxy), Raw(info.state), Raw(info.created_at),
                Raw(info.closing_time)>>)

PaymentSettledByProxy(pay_id, serv_id, amount, receiver, settled) ==
    [pay_id |-> pay_id, serv_id |-> serv_id, amount |-> amount,
     receiver |-> receiver, sig_sender |-> Raw(1), settled |-> settled,
     sig_proxy |-> Raw(2)]

PaymentSettledByProxy_hash(p) ==
    keccak256(<<Raw(p.pay_id), Raw(p.serv_id), Raw(p.amount), Raw(p.receiver),
                p.sig_sender, Raw(IF p.settled THEN 1 ELSE 0), p.sig_proxy>>)

to_key(p) == keccak256(<<Raw(p.pay_id), Raw(p.serv_id), Raw(p.receiver)>>)

\* The place of a content key in the byte order of B256.  The order of
\* digests is unrelated to the order of their preimages: the model fixes one
\* that is injective on the keys it builds and differs from field order.
KeyOrder(key) ==
    (key.pre[1].n + 6 * key.pre[2].n + 4 * key.pre[3].n) % 17

ServiceFeeConfig(serv_id, system_fee_rate, proxy_fee_rate) ==
    [serv_id |-> serv_id, system_fee_rate |-> system_fee_rate,
     proxy_fee_rate |-> proxy_fee_rate]

-----------------------------------------------------------------------------
(* PaymentsGrouper: src/src/receipts/payment_grouper.rs *)

\* `receivers.sort()` over the keys of receiver_groups
SortedReceivers(payments) ==
    LET S == {payments[i].receiver : i \in 1..Len(payments)}
    IN  [p \in 1..Cardinality(S) |->
            CHOOSE x \in S : Cardinality({y \in S : y < x}) = p - 1]

\* The entries of a receiver's group left in arrival order.
SortEntries_unsorted(entries) == entries

\* `entries.sort_by(|a, b| a.0.cmp(&b.0))`
SortEntries(entries) ==
    StableSortBy(entries, [i \in 1..Len(entries) |-> KeyOrder(entries[i].key)])

\* The (key, value) entries of one receiver's receipts, sorted, and their
\* aggregate hash.
ReceiverAggregate(payments, receiver) ==
    LET group   == SelectSeq(payments, LAMBDA p : p.receiver = receiver)
        entries == SortEntries([i \in 1..Len(group) |->
                       [key |-> to_key(group[i]),
                        value |-> PaymentSettledByProxy_hash(group[i])]])
    IN  keccak256([i \in 1..Len(entries) |-> entries[i].value])

\* The entries of all receivers, in the order of receivers.
AllEntries(payments, receivers) ==
    [i \in 1..Len(receivers) |->
        [key |-> eth_address_to_B256(receivers[i]),
         value |-> ReceiverAggregate(payments, receivers[i])]]

\* Step 4 of group_by_receiver: a proof for each receiver out of the tree b.vc
ReceiverProofs(receivers, b) ==
    LET proofs == [i \in 1..Len(receivers) |->
                      generate_proof(b.vc, eth_address_to_B256(receivers[i]))]
    IN  IF \E i \in 1..Len(receivers) : proofs[i].res # "ok"
        THEN [res |-> proofs[CHOOSE i \in 1..Len(receivers) :
                                 /\ proofs[i].res # "ok"
                                 /\ \A j \in 1..(i - 1) : proofs[j].res = "ok"].res,
              root |-> ZERO, receiver_proofs |-> <<>>]
        ELSE [res |-> "ok", root |-> b.root,
              receiver_proofs |-> [i \in 1..Len(receivers) |->
                  [receiver |-> receivers[i], proof |-> proofs[i].proof]]]

group_by_receiver(payments) ==
    The({The({The({IF b.res # "ok"
                   THEN [res |-> b.res, root |-> ZERO, receiver_proofs |-> <<>>]
                   ELSE ReceiverProofs(receivers, b) :
                  b \in {insert_batch(SegmentVC_new(Len(all_entries)),
                                      all_entries)}}) :
             all_entries \in {AllEntries(payments, receivers)}}) :
        receivers \in {SortedReceivers(payments)}})

-----------------------------------------------------------------------------
(* PayIdsProcessor: src/src/receipts/pay_ids_to_segvc.rs *)

\* create_segment_vc that takes the PayIdInfos in the order given.
create_segment_vc_unsorted(pay_ids) ==
    The({insert_batch(SegmentVC_new(Len(entries)), entries) :
            entries \in {[i \in 1..Len(pay_ids) |->
                            [key |-> Raw(pay_ids[i].id),
                             value |-> PayIdInfo_hash(pay_ids[i])]]}})

create_segment_vc(pay_ids) ==
    The({The({insert_batch(SegmentVC_new(Len(entries)), entries) :
             entries \in {[i \in 1..Len(sorted_pay_ids) |->
                             [key |-> Raw(sorted_pay_ids[i].id),
                              value |-> PayIdInfo_hash(sorted_pay_ids[i])]]}}) :
        sorted_pay_ids \in
            {StableSortBy(pay_ids, [i \in 1..Len(pay_ids) |-> pay_ids[i].id])}})

get_root_hash(pay_ids) ==
    The({[res |-> r.res, root |-> r.root] : r \in {create_segment_vc(pay_ids)}})

-----------------------------------------------------------------------------
(* ReceiptsOverpayChecker: src/src/receipts/overpay_checker.rs *)

PaymentKey(p) == <<p.pay_id, p.serv_id, p.receiver>>

validate_prerequisites(channel, pay_id_infos, settled_payments) ==
    IF \E i \in 1..Len(pay_id_infos) : pay_id_infos[i].proxy # channel
    THEN "Invalid channel in PayIdInfo"
    ELSE IF \E i \in 1..Len(settled_payments) : ~settled_payments[i].settled
    THEN "Found unsettled payment"
    ELSE IF \E i, j \in 1..Len(settled_payments) :
                /\ i < j
                /\ PaymentKey(settled_payments[i]) = PaymentKey(settled_payments[j])
    THEN "Duplicate payment found"
    ELSE "ok"

\* `*pay_id_totals.entry(payment.pay_id).or_default() += payment.amount`
RECURSIVE pay_id_totals(_, _)
pay_id_totals(settled_payments, totals) ==
    IF settled_payments = <<>>
    THEN totals
    ELSE LET p   == Head(settled_payments)
             cur == IF p.pay_id \in DOMAIN totals THEN totals[p.pay_id] ELSE 0
         IN  pay_id_totals(Tail(settled_payments),
                 MapInsert(totals, p.pay_id, wrapping_add(cur, p.amount)))

\* `.map(|info| (info.id, info.amount)).collect()`: a later record with the
\* same id replaces the earlier one.
RECURSIVE pay_id_info_map(_, _)
pay_id_info_map(pay_id_infos, m) ==
    IF pay_id_infos = <<>>
    THEN m
    ELSE pay_id_info_map(Tail(pay_id_infos),
             MapInsert(m, Head(pay_id_infos).id, Head(pay_id_infos).amount))

\* validate_overpayment: the set of its possible outcomes.  The loop walks
\* pay_id_totals in the iteration order of a HashMap and returns at the first
\* pay_id in error, so each pay_id in error is a possible outcome.
validate_overpayment(pay_id_infos, settled_payments) ==
    The({LET errors ==
                 {[res |-> "Overpayment detected", pay_id |-> id] :
                      id \in {x \in DOMAIN totals \cap DOMAIN caps :
                                  totals[x] > caps[x]}}
                 \cup
                 {[res |-> "PayId not found", pay_id |-> id] :
                      id \in DOMAIN totals \ DOMAIN caps}
         IN  IF errors = {} THEN {[res |-> "ok", pay_id |-> 0]} ELSE errors :
            totals \in {pay_id_totals(settled_payments, EmptyMap)},
            caps \in {pay_id_info_map(pay_id_infos, EmptyMap)}})

NoOutcome ==
    [op |-> "none", res |-> "none", pay_id |-> 0, trees |-> 0,
     payments_root |-> ZERO, receiver_proofs |-> <<>>, pay_ids_root |-> ZERO]

\* An Err return of process; trees counts the SegmentVC objects created.
Failure(res, pay_id, trees) ==
    [op |-> "process", res |-> res, pay_id |-> pay_id, trees |-> trees,
     payments_root |-> ZERO, receiver_proofs |-> <<>>, pay_ids_root |-> ZERO]

\* process after both validations passed: create_payments_vc, create_pay_ids_vc
BuildCommitments(pay_id_infos, settled_payments) ==
    The({IF g.res # "ok" THEN Failure(g.res, 0, 1)
         ELSE The({IF r.res # "ok" THEN Failure(r.res, 0, 2)
                   ELSE [op |-> "process", res |-> "ok", pay_id |-> 0,
                         trees |-> 2,
                         payments_root |-> g.root,
                         receiver_proofs |-> g.receiver_proofs,
                         pay_ids_root |-> r.root] :
                      r \in {get_root_hash(pay_id_infos)}}) :
            g \in {group_by_receiver(settled_payments)}})

\* process: the set of its possible outcomes
process(channel, pay_id_infos, settled_payments) ==
    LET pre == validate_prerequisites(channel, pay_id_infos, settled_payments)
    IN  IF pre # "ok"
        THEN {Failure(pre, 0, 0)}
        ELSE {IF o.res # "ok"
              THEN Failure(o.res, o.pay_id, 0)
              ELSE BuildCommitments(pay_id_infos, settled_payments) :
                  o \in validate_overpayment(pay_id_infos, settled_payments)}

-----------------------------------------------------------------------------
(* ReceiptsProfitCalculator: src/src/receipts/profit_calculator.rs *)

\* `.map(|config| (config.serv_id, config)).collect()`
RECURSIVE fee_configs(_, _)
fee_configs(service_configs, m) ==
    IF service_configs = <<>>
    THEN m
    ELSE fee_configs(Tail(service_configs),
             MapInsert(m, Head(service_configs).serv_id, Head(service_configs)))

base_rate == 10000

\* amount * rate / base_rate with checked_mul and checked_div
Fee(amount, rate) ==
    LET m == checked_mul(amount, rate)
    IN  IF ~m.some THEN [res |-> "Multiplication overflow", v |-> 0]
        ELSE LET q == checked_div(m.v, base_rate)
             IN  IF ~q.some THEN [res |-> "Division by zero", v |-> 0]
                 ELSE [res |-> "ok", v |-> q.v]

\* receiver_fee that leaves the proxy fee with the receiver.
receiver_fee_noProxy(amount, system_fee, proxy_fee) ==
    LET a == checked_sub(amount, system_fee)
    IN  IF ~a.some THEN None ELSE Some(a.v)

\* amount.checked_sub(system_fee)?.checked_sub(proxy_fee)?
receiver_fee(amount, system_fee, proxy_fee) ==
    LET a == checked_sub(amount, system_fee)
    IN  IF ~a.some THEN None ELSE checked_sub(a.v, proxy_fee)

ProfitErr(res) == [res |-> res, system |-> 0, proxy |-> 0, receiver |-> 0]

\* The receipt loop of calculate_profits, with the running totals.
RECURSIVE ProfitLoop(_, _, _)
ProfitLoop(receipts, configs, totals) ==
    IF receipts = <<>>
    THEN totals
    ELSE LET receipt == Head(receipts)
         IN  IF receipt.serv_id \notin DOMAIN configs
             THEN ProfitErr("Service config not found")
             ELSE
             LET config     == configs[receipt.serv_id]
                 system_fee == Fee(receipt.amount, config.system_fee_rate)
                 proxy_fee  == Fee(receipt.amount, config.proxy_fee_rate)
                 sys_total  == checked_add(totals.system, system_fee.v)
                 prx_total  == checked_add(totals.proxy, proxy_fee.v)
                 rcv_fee    == receiver_fee(receipt.amount, system_fee.v,
                                            proxy_fee.v)
                 rcv_total  == checked_add(totals.receiver, rcv_fee.v)
             IN  IF system_fee.res # "ok" THEN ProfitErr(system_fee.res)
                 ELSE IF ~sys_total.some THEN ProfitErr("Addition overflow")
                 ELSE IF proxy_fee.res # "ok" THEN ProfitErr(proxy_fee.res)
                 ELSE IF ~prx_total.some THEN ProfitErr("Addition overflow")
                 ELSE IF ~rcv_fee.some THEN ProfitErr("Subtraction overflow")
                 ELSE IF ~rcv_total.some THEN ProfitErr("Addition overflow")
                 ELSE ProfitLoop(Tail(receipts), configs,
                          [res |-> "ok", system |-> sys_total.v,
                           proxy |-> prx_total.v, receiver |-> rcv_total.v])

calculate_profits(receipts, service_configs) ==
    ProfitLoop(receipts, fee_configs(service_configs, EmptyMap),
               [res |-> "ok", system |-> 0, proxy |-> 0, receiver |-> 0])

-----------------------------------------------------------------------------
(* ProxySettlementResult: src/src/lib.rs *)

ProfitResult(receiver, proxy, receipts_root, pay_ids_root, serv_ids_root, system_profit, proxy_profit, receiver_profit) ==
    [receiver |-> receiver, proxy |-> proxy, receipts_root |-> receipts_root,
     pay_ids_root |-> pay_ids_root, serv_ids_root |-> serv_ids_root,
     system_profit |-> system_profit, proxy_profit |-> proxy_profit,
     receiver_profit |-> receiver_profit]

NoSettlement ==
    [vks_hash |-> ZERO, settlement_id |-> ZERO, proxy |-> 0,
     pay_ids_root |-> ZERO, serv_ids_root |-> ZERO, system_profits |-> 0,
     proxy_profits |-> 0, amount |-> 0]

\* The packed fields with the amount left out.
SettlementData_noAmount(r) ==
    <<Raw(r.proxy), r.pay_ids_root, r.serv_ids_root, Raw(r.system_profits),
      Raw(r.proxy_profits)>>

\* The packed bytes `data` of verify_settlement_id and calculate_settlement_id
SettlementData(r) ==
    <<Raw(r.proxy), r.pay_ids_root, r.serv_ids_root, Raw(r.system_profits),
      Raw(r.proxy_profits), Raw(r.amount)>>

calculate_settlement_id(r, receipts_root) ==
    keccak256(<<keccak256(SettlementData(r)), receipts_root>>)

verify_settlement_id(r, receipts_root) ==
    LET calculated_id == keccak256(<<keccak256(SettlementData(r)), receipts_root>>)
    IN  calculated_id = r.settlement_id

build_settlement_id(r) ==
    [r EXCEPT !.settlement_id = calculate_settlement_id(r, r.pay_ids_root)]

-----------------------------------------------------------------------------
(* ProxySettlementAggregator: src/src/proxy_settler.rs *)

\* pre_validate without the comparison with the overpay result
pre_validate_noOverpay(profit_results, overpay_pay_ids_root) ==
    IF profit_results = <<>>
    THEN "Empty profit results"
    ELSE IF \E i \in 1..Len(profit_results) :
                \/ profit_results[i].proxy # profit_results[1].proxy
                \/ profit_results[i].pay_ids_root # profit_results[1].pay_ids_root
                \/ profit_results[i].receipts_root # profit_results[1].receipts_root
    THEN "Inconsistent results"
    ELSE "ok"

pre_validate(profit_results, overpay_pay_ids_root) ==
    IF profit_results = <<>>
    THEN "Empty profit results"
    ELSE LET first_result == profit_results[1]
             Bad(i) ==
                 IF profit_results[i].proxy # first_result.proxy
                 THEN "Inconsistent proxy address"
                 ELSE IF profit_results[i].pay_ids_root # first_result.pay_ids_root
                 THEN "Inconsistent pay_ids_root"
                 ELSE IF profit_results[i].receipts_root # first_result.receipts_root
                 THEN "Inconsistent receipts_root"
                 ELSE "ok"
         IN  IF \E i \in 1..Len(profit_results) : Bad(i) # "ok"
             THEN Bad(CHOOSE i \in 1..Len(profit_results) :
                          /\ Bad(i) # "ok"
                          /\ \A j \in 1..(i - 1) : Bad(j) = "ok")
             ELSE IF overpay_pay_ids_root # first_result.pay_ids_root
             THEN "Overpay check pay_ids_root mismatch"
             ELSE "ok"

\* The accumulation loop of calculate_aggregate_result over one field
RECURSIVE SumField(_, _, _)
SumField(profit_results, field, acc) ==
    IF profit_results = <<>>
    THEN acc
    ELSE SumField(Tail(profit_results), field,
                  wrapping_add(acc, Head(profit_results)[field]))

calculate_aggregate_result(profit_results) ==
    LET first_result     == profit_results[1]
        system_profits   == SumField(profit_results, "system_profit", 0)
        proxy_profits    == SumField(profit_results, "proxy_profit", 0)
        receiver_profits == SumField(profit_results, "receiver_profit", 0)
        amount == wrapping_add(wrapping_add(system_profits, proxy_profits),
                               receiver_profits)
    IN  build_settlement_id(
            [vks_hash |-> ZERO, settlement_id |-> ZERO,
             proxy |-> first_result.proxy,
             pay_ids_root |-> first_result.pay_ids_root,
             serv_ids_root |-> first_result.serv_ids_root,
             system_profits |-> system_profits,
             proxy_profits |-> proxy_profits,
             amount |-> amount])

aggregate(profit_results, overpay_pay_ids_root) ==
    LET pre == pre_validate(profit_results, overpay_pay_ids_root)
    IN  IF pre # "ok"
        THEN [res |-> pre, result |-> NoSettlement]
        ELSE [res |-> "ok", result |-> calculate_aggregate_result(profit_results)]

-----------------------------------------------------------------------------
(* Signatures: src/src/lib.rs, src/src/receipts/mod.rs.  A secret key is a   *)
(* number; a signature names the secret key and the message hash it was made *)
(* over.                                                                     *)

\* libsecp256k1::sign
sign(msg, secret_key) == [k |-> "sig", n |-> secret_key, pre |-> <<msg>>]

PublicKey_from_secret_key(secret_key) ==
    [k |-> "public", n |-> secret_key, pre |-> <<>>]

\* libsecp256k1::recover: the signer's public key when msg is the message
\* that was signed, the public key of a secret key nobody holds (0) for any
\* other message, an error for bytes that are not a signature.
recover(msg, signature) ==
    IF signature.k # "sig"
    THEN [res |-> "DecoderError", public_key |-> PublicKey_from_secret_key(0)]
    ELSE IF signature.pre = <<msg>>
    THEN [res |-> "ok", public_key |-> PublicKey_from_secret_key(signature.n)]
    ELSE [res |-> "ok", public_key |-> PublicKey_from_secret_key(0)]

\* The address of a public key (the low 20 bytes of its digest): the secret
\* key of address a is 1000 + a.
get_ethereum_address(public_key) ==
    IF public_key.n >= 1000 THEN public_key.n - 1000 ELSE 0

\* the message Payment::sign signs
Payment_signed_hash(p) ==
    keccak256(<<Raw(p.pay_id), Raw(p.serv_id), Raw(p.amount), Raw(p.receiver)>>)

\* the message Payment::recover_signer rebuilds
Payment_recovered_hash(p) ==
    keccak256(<<Raw(p.pay_id), Raw(p.serv_id), Raw(p.receiver)>>)

\* the signed message with the settled flag left out
hash_for_signing_noSettled(p) ==
    keccak256(<<Raw(p.pay_id), Raw(p.serv_id), Raw(p.amount), Raw(p.receiver),
                p.sig_sender>>)

\* the message sign_by_proxy signs and recover_proxy_signer rebuilds
hash_for_signing(p) ==
    keccak256(<<Raw(p.pay_id), Raw(p.serv_id), Raw(p.amount), Raw(p.receiver),
                p.sig_sender, Raw(IF p.settled THEN 1 ELSE 0)>>)

\* Payment::sign
Payment_sign(p, secret_key) ==
    [p EXCEPT !.sig_sender = sign(Payment_signed_hash(p), secret_key)]

sign_by_proxy(p, secret_key) ==
    [p EXCEPT !.sig_proxy = sign(hash_for_signing(p), secret_key)]

Address(r) ==
    [res |-> r.res,
     address |-> IF r.res = "ok" THEN get_ethereum_address(r.public_key) ELSE 0]

Payment(pay_id, serv_id, amount, receiver) ==
    [pay_id |-> pay_id, serv_id |-> serv_id, amount |-> amount,
     receiver |-> receiver, sig_sender |-> ZERO]

\* impl From<Payment> for PaymentSettledByProxy
PaymentSettledByProxy_from(payment) ==
    [pay_id |-> payment.pay_id, serv_id |-> payment.serv_id,
     amount |-> payment.amount, receiver |-> payment.receiver,
     sig_sender |-> payment.sig_sender, settled |-> FALSE, sig_proxy |-> ZERO]

set_settlement(p, amount, settled) ==
    [p EXCEPT !.amount = amount, !.settled = settled]

recover_signer(payment) ==
    recover(Payment_recovered_hash(payment), payment.sig_sender)

get_signer_address(payment) == Address(recover_signer(payment))

\* get_sender_address: through a temporary Payment and its recover_signer
get_sender_address(p) ==
    get_signer_address([pay_id |-> p.pay_id, serv_id |-> p.serv_id,
                        receiver |-> p.receiver, sig_sender |-> p.sig_sender,
                        amount |-> p.amount])

recover_proxy_signer(p) == recover(hash_for_signing(p), p.sig_proxy)

get_proxy_address(p) == Address(recover_proxy_signer(p))

\* libsecp256k1::verify: the signature is one of the key over the message
secp_verify(msg, signature, public_key) ==
    /\ signature.k = "sig"
    /\ signature.pre = <<msg>>
    /\ PublicKey_from_secret_key(signature.n) = public_key

verify_proxy_signature(p, public_key) ==
    IF secp_verify(hash_for_signing(p), p.sig_proxy, public_key)
    THEN "true" ELSE "false"

-----------------------------------------------------------------------------
(* ReceiptsProfitCalculator::calculate: src/src/receipts/profit_calculator.rs *)

ReceiptsProfitCalculator_new(receiver, proxy, receipts, merkle_proof, pay_id_infos, service_configs) ==
    [receiver |-> receiver, proxy |-> proxy, receipts |-> receipts,
     merkle_proof |-> merkle_proof, pay_id_infos |-> pay_id_infos,
     service_configs |-> service_configs]

\* the receipts in the order of their content keys
SortReceipts_unsorted(receipts) == receipts

SortReceipts(receipts) ==
    StableSortBy(receipts,
                 [i \in 1..Len(receipts) |-> KeyOrder(to_key(receipts[i]))])

validate_merkle_proof(c) ==
    LET sorted_receipts == SortReceipts(c.receipts)
        hash_of_all_payments ==
            keccak256([i \in 1..Len(sorted_receipts) |->
                          PaymentSettledByProxy_hash(sorted_receipts[i])])
        verified == MerkleProof_verify(c.merkle_proof)
    IN  IF c.merkle_proof.value_proof.value # hash_of_all_payments
        THEN "Invalid Merkle proof and hash of receipts"
        ELSE IF verified = "panic" THEN "panic"
        ELSE IF verified = "false" THEN "Invalid Merkle proof for receipts"
        ELSE "ok"

\* pay_id_senders: a later record of an id replaces an earlier one
RECURSIVE pay_id_senders(_, _)
pay_id_senders(pay_id_infos, m) ==
    IF pay_id_infos = <<>>
    THEN m
    ELSE pay_id_senders(Tail(pay_id_infos),
                        MapInsert(m, Head(pay_id_infos).id,
                                  Head(pay_id_infos).sender))

\* the check of one receipt in validate_signatures, the proxy check left out
check_signatures_noProxy(c, senders, receipt) ==
    IF receipt.pay_id \notin DOMAIN senders
    THEN "PayId not found in PayIdInfos"
    ELSE IF get_sender_address(receipt).res # "ok"
    THEN "DecoderError"
    ELSE IF get_sender_address(receipt).address # senders[receipt.pay_id]
    THEN "Invalid sender signature"
    ELSE "ok"

\* the check of one receipt in validate_signatures
check_signatures(c, senders, receipt) ==
    IF receipt.pay_id \notin DOMAIN senders
    THEN "PayId not found in PayIdInfos"
    ELSE IF get_sender_address(receipt).res # "ok"
    THEN "DecoderError"
    ELSE IF get_sender_address(receipt).address # senders[receipt.pay_id]
    THEN "Invalid sender signature"
    ELSE IF get_proxy_address(receipt).res # "ok"
    THEN "DecoderError"
    ELSE IF get_proxy_address(receipt).address # c.proxy
    THEN "Invalid proxy signature"
    ELSE "ok"

validate_signatures(c) ==
    LET senders == pay_id_senders(c.pay_id_infos, EmptyMap)
        bad == {i \in 1..Len(c.receipts) :
                   check_signatures(c, senders, c.receipts[i]) # "ok"}
    IN  IF bad = {}
        THEN "ok"
        ELSE check_signatures(c, senders,
                 c.receipts[CHOOSE i \in bad : \A j \in bad : i <= j])

\* validate_prerequisites of the calculator: the first failing step, or "ok"
calculator_validate_prerequisites(c) ==
    IF \E i \in 1..Len(c.pay_id_infos) : c.pay_id_infos[i].proxy # c.proxy
    THEN "Invalid proxy in PayIdInfo"
    ELSE IF validate_merkle_proof(c) # "ok"
    THEN validate_merkle_proof(c)
    ELSE IF \E i \in 1..Len(c.receipts) : c.receipts[i].receiver # c.receiver
    THEN "Invalid receiver in receipt"
    ELSE validate_signatures(c)

calculate_pay_ids_root(c) ==
    LET sorted_pay_ids ==
            StableSortBy(c.pay_id_infos,
                         [i \in 1..Len(c.pay_id_infos) |-> c.pay_id_infos[i].id])
    IN  keccak256([i \in 1..Len(sorted_pay_ids) |->
                      PayIdInfo_hash(sorted_pay_ids[i])])

calculate_serv_ids_root(c) ==
    LET sorted_configs ==
            StableSortBy(c.service_configs,
                         [i \in 1..Len(c.service_configs) |->
                             c.service_configs[i].serv_id])
    IN  keccak256([i \in 1..(3 * Len(sorted_configs)) |->
                      LET config == sorted_configs[((i - 1) \div 3) + 1]
                      IN  IF i % 3 = 1 THEN Raw(config.serv_id)
                          ELSE IF i % 3 = 2 THEN Raw(config.system_fee_rate)
                          ELSE Raw(config.proxy_fee_rate)])

NoProfitResult == ProfitResult(0, 0, ZERO, ZERO, ZERO, 0, 0, 0)

calculate(c) ==
    The({IF pre # "ok"
         THEN [res |-> pre, result |-> NoProfitResult]
         ELSE The({IF profits.res # "ok"
                   THEN [res |-> profits.res, result |-> NoProfitResult]
                   ELSE [res |-> "ok",
                         result |-> ProfitResult(
                             c.receiver, c.proxy, c.merkle_proof.root_hash,
                             calculate_pay_ids_root(c),
                             calculate_serv_ids_root(c),
                             profits.system, profits.proxy, profits.receiver)] :
                      profits \in {calculate_profits(c.receipts,
                                                     c.service_configs)}}) :
            pre \in {calculator_validate_prerequisites(c)}})

-----------------------------------------------------------------------------
(* ReceiverSettler: src/src/receiver_settler.rs *)

ReceiverSettler_new(receiver) == [receiver |-> receiver, total_profit |-> 0]

\* calculate_payments_root: the chain hash of the payments' hashes from zero
RECURSIVE ChainFrom(_, _)
ChainFrom(current_hash, payments) ==
    IF payments = <<>>
    THEN current_hash
    ELSE ChainFrom(keccak256_more(current_hash,
                                  <<PaymentSettledByProxy_hash(Head(payments))>>),
                   Tail(payments))

calculate_payments_root(payments) == ChainFrom(ZERO, payments)

\* process_proxy_settlement with an addition that wraps
process_proxy_settlement_wrapping(settler, payments, profit_result) ==
    IF calculate_payments_root(payments) # profit_result.receipts_root
    THEN [res |-> "Payments root mismatch", settler |-> settler]
    ELSE IF settler.receiver # profit_result.receiver
    THEN [res |-> "Receiver mismatch", settler |-> settler]
    ELSE [res |-> "ok",
          settler |-> [settler EXCEPT !.total_profit =
              wrapping_add(settler.total_profit, profit_result.receiver_profit)]]

\* process_proxy_settlement: the result and the settler after the call
process_proxy_settlement(settler, payments, profit_result) ==
    IF calculate_payments_root(payments) # profit_result.receipts_root
    THEN [res |-> "Payments root mismatch", settler |-> settler]
    ELSE IF settler.receiver # profit_result.receiver
    THEN [res |-> "Receiver mismatch", settler |-> settler]
    ELSE LET total == checked_add(settler.total_profit,
                                  profit_result.receiver_profit)
         IN  IF ~total.some
             THEN [res |-> "Profit overflow", settler |-> settler]
             ELSE [res |-> "ok",
                   settler |-> [settler EXCEPT !.total_profit = total.v]]

-----------------------------------------------------------------------------
(* Bounds of the model *)

\* largest capacity of a history store
MaxCapacity == 3

\* number of add_hash calls on the store
MaxAdds == 5

\* number of inserts into the tree: 16 * 16 + 2 reaches a third tree level
MaxInserts == 258

\* the first slots of the tree take any value, the later ones a fixed one
BranchSlots == 1

\* longest list of receipts given to the overpay checker and the profit split
MaxReceipts == 4

\* longest list of ProfitResults given to the aggregator
MaxResults == 2

\* number of operations on the tree that is driven through both modes
MaxTreeOps == 4

\* longest list given to the canonicalizers in two orders
MaxCanon == 3

\* the receipts of a batch handed to process and then to the calculator
MaxCalc == 3

\* calls of process_proxy_settlement on one ReceiverSettler
MaxSettlements == 3

\* entries of a tree beyond the ones that fill its first segment
MaxTwin == 3

\* largest chunk_index or node_index written into a proof
MaxIndex == 3

-----------------------------------------------------------------------------
(* The history store on its own *)

\* The hashes offered to add_hash: the empty sentinel, plain digests, and a
\* digest that is the chained hash of two of the others.
StoreHashes ==
    {ZERO, Raw(1), Raw(2), Raw(3), keccak256_more(Raw(1), <<Raw(2)>>)}

StoreIdle ==
    /\ store = CircularHashStore_new(1)
    /\ added = <<>>
    /\ storeRes = "none"

VcIdle ==
    /\ vc = SegmentVC_new(1)
    /\ vcRes = "none"

OverpayIdle ==
    /\ ocIn = [channel |-> 0, pay_id_infos |-> <<>>, settled_payments |-> <<>>]
    /\ ocOut = NoOutcome

ProfitIdle ==
    /\ prIn = [receipts |-> <<>>, service_configs |-> <<>>]
    /\ prOut = [res |-> "none", system |-> 0, proxy |-> 0, receiver |-> 0]

SettleIdle ==
    /\ stIn = [profit_results |-> <<>>, pay_ids_root |-> ZERO]
    /\ stl = [r |-> NoSettlement, R |-> ZERO]
    /\ stOrig = stl
    /\ stRes = "none"

NoOp ==
    [op |-> "none", key |-> ZERO, value |-> ZERO, entries |-> <<>>,
     res |-> "none", root |-> ZERO, n |-> 0]

\* the tree's root and what it stores under each key; built_only while the
\* tree has seen nothing but insert and update in Built mode
NoMoments ==
    [built_only |-> TRUE,
     moments |-> {[root |-> ZERO, stored |-> EmptyMap]}]

ModeIdle ==
    /\ svc = SegmentVC_new(1)
    /\ svcPrev = svc
    /\ svcOp = NoOp
    /\ svcKeys = <<>>
    /\ svcRoots = <<>>
    /\ svcMoments = NoMoments

CanonIdle ==
    /\ cnIn = [pay_ids |-> <<>>, receipts |-> <<>>]
    /\ cnOut = [op |-> "none", perm |-> <<>>,
                first |-> [res |-> "none"], second |-> [res |-> "none"]]

NoCalculation ==
    [op |-> "none", variant |-> "none",
     calculator |-> ReceiptsProfitCalculator_new(0, 0, <<>>, NoProof, <<>>, <<>>),
     merkle |-> "none", res |-> "none", result |-> NoProfitResult]

CalcIdle ==
    /\ pcIn = [settled_payments |-> <<>>, outcome |-> NoOutcome]
    /\ pcOut = NoCalculation

NoSigning ==
    [op |-> "none", key |-> 0, field |-> "none", verified |-> "none",
     recovered |-> recover(ZERO, ZERO), address |-> Address(recover(ZERO, ZERO)),
     sender |-> Address(recover(ZERO, ZERO))]

SignIdle ==
    /\ sgIn = [payment |-> Payment(0, 0, 0, 0),
               p |-> PaymentSettledByProxy_from(Payment(0, 0, 0, 0)),
               sender_key |-> 0, proxy_key |-> 0, changed |-> FALSE]
    /\ sgOut = NoSigning

NoSettling ==
    [op |-> "none", res |-> "none", n |-> 0, payments |-> <<>>,
     profit_result |-> NoProfitResult, before |-> 0]

SettlerIdle ==
    /\ rcv = ReceiverSettler_new(0)
    /\ rcvOp = NoSettling
    /\ rcvSum = 0

TwinIdle ==
    /\ twIn = [first |-> <<>>, second |-> <<>>]
    /\ twOut = [op |-> "none", first |-> [res |-> "none"],
                second |-> [res |-> "none"]]

NoStage == [op |-> "none", res |-> "none"]

PipeIdle ==
    /\ ppIn = [settled_payments |-> <<>>]
    /\ ppOut = [overpay |-> NoOutcome, calculated |-> <<>>,
                aggregated |-> NoStage, reconciled |-> NoStage]

ProofIdle ==
    /\ mp = NoProof
    /\ mpOut = [op |-> "none", variant |-> "none", key |-> ZERO, res |-> "none"]

FourthIdle == PipeIdle /\ ProofIdle

ThirdIdle == SignIdle /\ SettlerIdle /\ TwinIdle /\ FourthIdle

LaterIdle == ModeIdle /\ CanonIdle /\ CalcIdle /\ ThirdIdle

EarlierIdle == StoreIdle /\ VcIdle /\ OverpayIdle /\ ProfitIdle /\ SettleIdle

InitStore ==
    /\ \E capacity \in 1..MaxCapacity : store = CircularHashStore_new(capacity)
    /\ added = <<>>
    /\ storeRes = "none"
    /\ VcIdle /\ OverpayIdle /\ ProfitIdle /\ SettleIdle /\ LaterIdle

AddHash(hash) ==
    /\ Len(added) < MaxAdds
    /\ LET r == add_hash(store, hash)
       IN  /\ store' = r.store
           /\ storeRes' = r.res
           /\ added' = IF r.res = "ok" THEN Append(added, hash) ELSE added
    /\ UNCHANGED <<treeVars, overpayVars, profitVars, settleVars, laterVars>>

NextStore == \E hash \in StoreHashes : AddHash(hash)

SpecStore == InitStore /\ [][NextStore]_vars

-----------------------------------------------------------------------------
(* The tree under Built-mode inserts *)

TreeValues == {ZERO, Raw(1), Raw(2)}

\* The key of the n-th insert: keys are pairwise distinct.
TreeKey(n) == Raw(n)

ValuesAt(slot) ==
    IF slot < BranchSlots THEN TreeValues ELSE {Raw(1 + (slot % 2))}

InitTree ==
    /\ \E capacity \in 1..2 : vc = SegmentVC_new(capacity)
    /\ vcRes = "none"
    /\ StoreIdle /\ OverpayIdle /\ ProfitIdle /\ SettleIdle /\ LaterIdle

TreeInsert(value) ==
    /\ vc.total_size < MaxInserts
    /\ LET r == insert(vc, TreeKey(vc.total_size + 1), value)
       IN  /\ vc' = r.vc
           /\ vcRes' = r.res
    /\ UNCHANGED <<storeVars, overpayVars, profitVars, settleVars, laterVars>>

NextTree == \E value \in ValuesAt(vc.total_size) : TreeInsert(value)

SpecTree == InitTree /\ [][NextTree]_vars

\* C1: after each Built-mode insert of a new key, generate_proof succeeds for
\* every key inserted so far, the proof verifies, and its root_hash is the
\* tree's current root.
C1_InsertProveRoundTrip ==
    \A key \in DOMAIN vc.indices :
        LET g == generate_proof(vc, key)
        IN  /\ g.res = "ok"
            /\ MerkleProof_verify(g.proof) = "true"
            /\ g.proof.root_hash = vc.root_hash

\* a tree of more than 256 leaves: 17 segments, three stored levels
C1_Witness ==
    /\ vc.total_size > SEGMENT_SIZE * SEGMENT_SIZE
    /\ vcRes = "ok"
    /\ Cardinality(DOMAIN vc.merkle_nodes) = 3
    /\ MerkleProof_verify(generate_proof(vc, TreeKey(vc.total_size)).proof) = "true"

-----------------------------------------------------------------------------
(* Claims about the history store *)

Distinct(s) == \A i, j \in 1..Len(s) : i # j => s[i] # s[j]

Range(s) == {s[i] : i \in 1..Len(s)}

\* every non-empty list of at most n elements of S
ListsOver(S, n) == UNION {[1..m -> S] : m \in 1..n}

\* the last Min(n, C) hashes add_hash accepted
LastAdded ==
    SubSeq(added, Len(added) - Min(Len(added), store.capacity) + 1, Len(added))

\* C9: after n successful add_hash calls on a store of capacity C >= 1,
\* current_size = min(n, C), total_added = n >= current_size, the live window
\* is the last min(n, C) added hashes in insertion order, and check_hash(h, [])
\* is true for exactly those hashes.
C9_HistoryWindow ==
    /\ current_size(store) = Min(Len(added), store.capacity)
    /\ total_added(store) = Len(added)
    /\ total_added(store) >= current_size(store)
    /\ store.hashes = LastAdded
    /\ \A h \in StoreHashes :
           check_hash(store, h, <<>>) <=> h \in Range(LastAdded)

\* the window is full and two hashes have been evicted
C9_Witness ==
    /\ storeRes = "ok"
    /\ Len(added) = store.capacity + 2
    /\ current_size(store) = store.capacity
    /\ ~check_hash(store, added[1], <<>>)

\* C10: after capacity + k (k > 0) distinct hashes were added, each of the k
\* earliest is absent from the live window and has a history proof that
\* check_hash accepts.
C10_EvictedProvable ==
    LET k == Len(added) - store.capacity
    IN  (k > 0 /\ Distinct(added)) =>
            \A i \in 1..k :
                /\ ~check_hash(store, added[i], <<>>)
                /\ \E history_proof \in ListsOver(Range(added), k) :
                       check_hash(store, added[i], history_proof)

-----------------------------------------------------------------------------
(* The overpay checker: one checker per behaviour, built by *)
(* ReceiptsOverpayChecker::new and then asked once.         *)

\* addresses
Proxy1 == 11
Proxy2 == 12
Sender1 == 21
Receiver1 == 1
Receiver2 == 2
Receiver3 == 3

\* The receipts a batch is drawn from: three receivers, two pay_ids, two
\* services, amounts around a cap of 1000 and at the top of the U256 range,
\* and an unsettled one.
Receipts ==
    {PaymentSettledByProxy(1, 1, 400, Receiver1, TRUE),
     PaymentSettledByProxy(1, 2, 600, Receiver1, TRUE),
     PaymentSettledByProxy(1, 2, 601, Receiver2, TRUE),
     PaymentSettledByProxy(1, 1, U256_MAX, Receiver2, TRUE),
     PaymentSettledByProxy(2, 1, 400, Receiver1, TRUE),
     PaymentSettledByProxy(2, 2, 600, Receiver1, TRUE),
     PaymentSettledByProxy(1, 1, 1, Receiver3, TRUE),
     PaymentSettledByProxy(2, 1, 1, Receiver2, FALSE)}

ReceiptLists == {<<>>} \cup UNION {[1..m -> Receipts] : m \in 1..MaxReceipts}

\* The PayIdInfo lists: in and out of id order, with a record of another
\* channel, with two records of one id, and empty.
PayIdInfoLists ==
    {<<PayIdInfo(1, 1000, Sender1, Proxy1)>>,
     <<PayIdInfo(1, 1000, Sender1, Proxy1), PayIdInfo(2, 1000, Sender1, Proxy1)>>,
     <<PayIdInfo(2, 1000, Sender1, Proxy1), PayIdInfo(1, 1000, Sender1, Proxy1)>>,
     <<PayIdInfo(1, 1000, Sender1, Proxy1), PayIdInfo(2, 1000, Sender1, Proxy2)>>,
     <<PayIdInfo(1, 1000, Sender1, Proxy1), PayIdInfo(1, 500, Sender1, Proxy1)>>,
     <<>>}

InitOverpay ==
    /\ \E pay_id_infos \in PayIdInfoLists, settled_payments \in ReceiptLists :
           ocIn = [channel |-> Proxy1, pay_id_infos |-> pay_id_infos,
                   settled_payments |-> settled_payments]
    /\ ocOut = NoOutcome
    /\ StoreIdle /\ VcIdle /\ ProfitIdle /\ SettleIdle /\ LaterIdle

ValidateOverpayment ==
    /\ ocOut.op = "none"
    /\ \E o \in validate_overpayment(ocIn.pay_id_infos, ocIn.settled_payments) :
           ocOut' = [NoOutcome EXCEPT !.op = "validate_overpayment",
                                      !.res = o.res, !.pay_id = o.pay_id]
    /\ UNCHANGED <<ocIn, storeVars, treeVars, profitVars, settleVars, laterVars>>

Process ==
    /\ ocOut.op = "none"
    /\ \E o \in process(ocIn.channel, ocIn.pay_id_infos, ocIn.settled_payments) :
           ocOut' = o
    /\ UNCHANGED <<ocIn, storeVars, treeVars, profitVars, settleVars, laterVars>>

NextOverpay == ValidateOverpayment \/ Process

SpecOverpay == InitOverpay /\ [][NextOverpay]_vars

\* the receipts of the batch, as a set of positions
Batch == 1..Len(ocIn.settled_payments)

\* the exact sum of the amounts of the receipts of pay_id
RECURSIVE ExactSum(_, _)
ExactSum(payments, pay_id) ==
    IF payments = <<>>
    THEN 0
    ELSE (IF Head(payments).pay_id = pay_id THEN Head(payments).amount ELSE 0)
         + ExactSum(Tail(payments), pay_id)

BatchPayIds == {ocIn.settled_payments[i].pay_id : i \in Batch}

\* pay_id has a PayIdInfo (the last one with that id counts)
Known(pay_id) == \E i \in 1..Len(ocIn.pay_id_infos) : ocIn.pay_id_infos[i].id = pay_id

Cap(pay_id) ==
    LET last == CHOOSE i \in 1..Len(ocIn.pay_id_infos) :
                    /\ ocIn.pay_id_infos[i].id = pay_id
                    /\ \A j \in (i + 1)..Len(ocIn.pay_id_infos) :
                           ocIn.pay_id_infos[j].id # pay_id
    IN  ocIn.pay_id_infos[last].amount

WithinCaps ==
    \A pay_id \in BatchPayIds :
        Known(pay_id) /\ ExactSum(ocIn.settled_payments, pay_id) <= Cap(pay_id)

\* C2: validate_overpayment succeeds when every pay_id of the receipts has a
\* PayIdInfo and the sum of its receipt amounts is at most that record's
\* amount; it returns an error when some sum exceeds the amount by one or
\* more and when a receipt names a pay_id without a PayIdInfo.
C2_OverpayBoundary ==
    ocOut.op = "validate_overpayment" =>
        /\ WithinCaps => ocOut.res = "ok"
        /\ ~WithinCaps => ocOut.res \in {"Overpayment detected", "PayId not found"}

Rule1 == \A i \in 1..Len(ocIn.pay_id_infos) : ocIn.pay_id_infos[i].proxy = ocIn.channel

Rule2 == \A i \in Batch : ocIn.settled_payments[i].settled

Rule3 ==
    \A i, j \in Batch :
        i # j => \/ ocIn.settled_payments[i].pay_id # ocIn.settled_payments[j].pay_id
                 \/ ocIn.settled_payments[i].serv_id # ocIn.settled_payments[j].serv_id
                 \/ ocIn.settled_payments[i].receiver # ocIn.settled_payments[j].receiver

\* no overpayment and no unknown pay_id
Rule4 == WithinCaps

\* C4: process reports the first violated rule in the order channel,
\* settled, duplicate, overpayment or unknown pay_id, and creates no tree
\* unless all four rules pass.
C4_FailFastOrder ==
    ocOut.op = "process" =>
        /\ ~Rule1 => ocOut.res = "Invalid channel in PayIdInfo"
        /\ Rule1 /\ ~Rule2 => ocOut.res = "Found unsettled payment"
        /\ Rule1 /\ Rule2 /\ ~Rule3 => ocOut.res = "Duplicate payment found"
        /\ Rule1 /\ Rule2 /\ Rule3 /\ ~Rule4 =>
               ocOut.res \in {"Overpayment detected", "PayId not found"}
        /\ ocOut.trees > 0 => Rule1 /\ Rule2 /\ Rule3 /\ Rule4

BatchReceivers == {ocIn.settled_payments[i].receiver : i \in Batch}

\* the positions of the receipts of receiver
ReceiptsOf(receiver) == {i \in Batch : ocIn.settled_payments[i].receiver = receiver}

\* value is the hash over the hashes of the receipts of receiver, each once,
\* in ascending order of their content keys
IsAggregateOf(value, receiver) ==
    LET own == ReceiptsOf(receiver)
        n   == Cardinality(own)
    IN  \E f \in [1..n -> own] :
            /\ \A a, b \in 1..n :
                   a < b => KeyOrder(to_key(ocIn.settled_payments[f[a]]))
                                < KeyOrder(to_key(ocIn.settled_payments[f[b]]))
            /\ value = keccak256([a \in 1..n |->
                           PaymentSettledByProxy_hash(ocIn.settled_payments[f[a]])])

\* C5: when process returns Ok, receiver_proofs has exactly one entry per
\* distinct receiver of the receipts, every proof verifies, every proof's
\* root_hash is the returned payments_root, and every leaf value is the hash
\* over that receiver's receipt hashes in ascending to_key order.
C5_ReceiverProofs ==
    (ocOut.op = "process" /\ ocOut.res = "ok") =>
        LET proofs == ocOut.receiver_proofs
        IN  /\ Len(proofs) = Cardinality(BatchReceivers)
            /\ {proofs[i].receiver : i \in 1..Len(proofs)} = BatchReceivers
            /\ \A i \in 1..Len(proofs) :
                   /\ MerkleProof_verify(proofs[i].proof) = "true"
                   /\ proofs[i].proof.root_hash = ocOut.payments_root
                   /\ IsAggregateOf(proofs[i].proof.value_proof.value,
                                    proofs[i].receiver)

\* two receivers, one of them with two receipts that arrive in descending
\* key order
C5_Witness ==
    /\ ocOut.op = "process"
    /\ ocOut.res = "ok"
    /\ Len(ocOut.receiver_proofs) = 2
    /\ \E i, j \in Batch :
           /\ i < j
           /\ ocIn.settled_payments[i].receiver = ocIn.settled_payments[j].receiver
           /\ KeyOrder(to_key(ocIn.settled_payments[i]))
                  > KeyOrder(to_key(ocIn.settled_payments[j]))

-----------------------------------------------------------------------------
(* The profit split *)

\* The fee schedules: the 5% / 10% one of the tests, one without a config for
\* service 2, rates that add up to more than the base, whole-amount rates,
\* the largest u16 rates, two configs for one service, and none.
ServiceConfigLists ==
    {<<ServiceFeeConfig(1, 500, 1000), ServiceFeeConfig(2, 0, 0)>>,
     <<ServiceFeeConfig(1, 500, 1000)>>,
     <<ServiceFeeConfig(1, 6000, 5000), ServiceFeeConfig(2, 1, 1)>>,
     <<ServiceFeeConfig(1, 10000, 0), ServiceFeeConfig(2, 0, 10000)>>,
     <<ServiceFeeConfig(1, 65535, 65535), ServiceFeeConfig(2, 3333, 3333)>>,
     <<ServiceFeeConfig(1, 500, 1000), ServiceFeeConfig(1, 0, 0),
       ServiceFeeConfig(2, 250, 250)>>,
     <<>>}

InitProfit ==
    /\ \E receipts \in ReceiptLists, service_configs \in ServiceConfigLists :
           prIn = [receipts |-> receipts, service_configs |-> service_configs]
    /\ prOut = [res |-> "none", system |-> 0, proxy |-> 0, receiver |-> 0]
    /\ StoreIdle /\ VcIdle /\ OverpayIdle /\ SettleIdle /\ LaterIdle

CalculateProfits ==
    /\ prOut.res = "none"
    /\ prOut' = calculate_profits(prIn.receipts, prIn.service_configs)
    /\ UNCHANGED <<prIn, storeVars, treeVars, overpayVars, settleVars, laterVars>>

NextProfit == CalculateProfits

SpecProfit == InitProfit /\ [][NextProfit]_vars

RECURSIVE SumAmounts(_)
SumAmounts(receipts) ==
    IF receipts = <<>> THEN 0
    ELSE Head(receipts).amount + SumAmounts(Tail(receipts))

\* C3: whenever calculate_profits returns Ok, system_profit + proxy_profit +
\* receiver_profit is exactly the sum of the amounts of all receipts.
C3_ProfitConservation ==
    prOut.res = "ok" =>
        prOut.system + prOut.proxy + prOut.receiver = SumAmounts(prIn.receipts)

\* three receipts, one of them with a system fee that is rounded down
C3_Witness ==
    /\ prOut.res = "ok"
    /\ Len(prIn.receipts) = 3
    /\ prOut.system > 0
    /\ prOut.proxy > 0
    /\ prOut.receiver > 0
    /\ \E i \in 1..3 :
           /\ prIn.receipts[i].amount = 601
           /\ (601 * fee_configs(prIn.service_configs, EmptyMap)
                         [prIn.receipts[i].serv_id].system_fee_rate)
                  % base_rate # 0

-----------------------------------------------------------------------------
(* The settlement aggregator and the settlement id *)

ReceiptsRoots == {Raw(101), Raw(102)}

PayIdsRoots == {Raw(102), Raw(103)}

ServIdsRoots == {Raw(104), Raw(105)}

Profits == {<<50, 100, 850>>, <<U256_MAX, 1, 0>>}

ProfitResults ==
    {ProfitResult(Receiver1, proxy, receipts_root, pay_ids_root, serv_ids_root,
                  p[1], p[2], p[3]) :
        proxy \in {Proxy1, Proxy2}, receipts_root \in ReceiptsRoots,
        pay_ids_root \in PayIdsRoots, serv_ids_root \in ServIdsRoots,
        p \in Profits}

ProfitResultLists ==
    {<<>>} \cup UNION {[1..m -> ProfitResults] : m \in 1..MaxResults}

InitSettle ==
    /\ \E profit_results \in ProfitResultLists, pay_ids_root \in PayIdsRoots :
           stIn = [profit_results |-> profit_results, pay_ids_root |-> pay_ids_root]
    /\ stl = [r |-> NoSettlement, R |-> ZERO]
    /\ stOrig = stl
    /\ stRes = "none"
    /\ StoreIdle /\ VcIdle /\ OverpayIdle /\ ProfitIdle /\ LaterIdle

\* aggregate; R is the receipts_root shared by the ProfitResults
Aggregate ==
    /\ stRes = "none"
    /\ LET a == aggregate(stIn.profit_results, stIn.pay_ids_root)
       IN  /\ stRes' = IF a.res = "ok" THEN "aggregated" ELSE a.res
           /\ stl' = [r |-> a.result,
                      R |-> IF a.res = "ok"
                            THEN stIn.profit_results[1].receipts_root
                            ELSE ZERO]
           /\ stOrig' = stl'
    /\ UNCHANGED <<stIn, storeVars, treeVars, overpayVars, profitVars, laterVars>>

\* a caller stores the id it computes with calculate_settlement_id for R
SetSettlementId ==
    /\ stRes = "aggregated"
    /\ stl' = [stl EXCEPT !.r.settlement_id = calculate_settlement_id(stl.r, stl.R)]
    /\ stOrig' = stl'
    /\ stRes' = "id set"
    /\ UNCHANGED <<stIn, storeVars, treeVars, overpayVars, profitVars, laterVars>>

\* the values a field of the result, or R, is changed to
FieldValues(field) ==
    IF field = "proxy" THEN {Proxy1, Proxy2}
    ELSE IF field \in {"pay_ids_root", "serv_ids_root", "R"}
    THEN ReceiptsRoots \cup PayIdsRoots \cup ServIdsRoots
    ELSE {0, 1, 50, 100, 850, 1000, U256_MAX}

AttestedFields ==
    {"proxy", "pay_ids_root", "serv_ids_root", "system_profits",
     "proxy_profits", "amount"}

\* exactly one attested field of the result, or R, gets a different value
Tamper(field, value) ==
    /\ stRes \in {"aggregated", "id set"}
    /\ IF field = "R"
       THEN /\ value # stl.R
            /\ stl' = [stl EXCEPT !.R = value]
       ELSE /\ value # stl.r[field]
            /\ stl' = [stl EXCEPT !.r[field] = value]
    /\ stOrig' = stl
    /\ stRes' = "tampered"
    /\ UNCHANGED <<stIn, storeVars, treeVars, overpayVars, profitVars, laterVars>>

NextSettle ==
    \/ Aggregate
    \/ SetSettlementId
    \/ \E field \in AttestedFields \cup {"R"} :
           \E value \in FieldValues(field) : Tamper(field, value)

SpecSettle == InitSettle /\ [][NextSettle]_vars

\* the state right after aggregate returned Ok
Aggregated == stRes = "aggregated"

\* C6: the settlement_id of the result of aggregate is
\* H(H(proxy || pay_ids_root || serv_ids_root || system_profits ||
\* proxy_profits || amount) || receipts_root), receipts_root being the one
\* the input ProfitResults share.
C6_SettlementId ==
    Aggregated =>
        stl.r.settlement_id =
            keccak256(<<keccak256(<<Raw(stl.r.proxy), stl.r.pay_ids_root,
                                    stl.r.serv_ids_root,
                                    Raw(stl.r.system_profits),
                                    Raw(stl.r.proxy_profits),
                                    Raw(stl.r.amount)>>),
                        stIn.profit_results[1].receipts_root>>)

\* C7: for the result r of aggregate on ProfitResults with the common
\* receipts_root R, r.verify_settlement_id(R) is true.
C7_RoundTrip == Aggregated => verify_settlement_id(stl.r, stl.R)

\* C8: when r.verify_settlement_id(R) is true, changing exactly one of proxy,
\* pay_ids_root, serv_ids_root, system_profits, proxy_profits, amount or R to
\* a different value makes verify_settlement_id false.
C8_TamperDetected ==
    (stRes = "tampered" /\ verify_settlement_id(stOrig.r, stOrig.R)) =>
        ~verify_settlement_id(stl.r, stl.R)

\* the amount of a verified result was changed
C8_Witness ==
    /\ stRes = "tampered"
    /\ verify_settlement_id(stOrig.r, stOrig.R)
    /\ stl.r.amount # stOrig.r.amount
    /\ ~verify_settlement_id(stl.r, stl.R)

-----------------------------------------------------------------------------
(* The tree in both modes: insert, update, start_building, finish_building *)
(* and insert_batch in any order.                                          *)

ModeKeys == {Raw(1), Raw(2)}

ModeValues == {ZERO, Raw(1)}

Entry(key, value) == [key |-> key, value |-> value]

\* a full segment of entries, under keys other than ModeKeys
FullSegment == [i \in 1..SEGMENT_SIZE |-> Entry(Raw(i + 2), Raw(1))]

\* a full segment whose first key is of ModeKeys, and the default value under
\* the other key of ModeKeys as the only value of the next segment
SegmentAndDefault ==
    <<Entry(Raw(1), Raw(1))>>
        \o [i \in 1..(SEGMENT_SIZE - 1) |-> Entry(Raw(i + 2), Raw(1))]
        \o <<Entry(Raw(2), ZERO)>>

\* The lists given to insert_batch: empty, one value, the default value alone
\* and next to another value, one key twice, a full segment, and a full
\* segment followed by the default value.
BatchLists ==
    {<<>>,
     <<Entry(Raw(1), Raw(1))>>,
     <<Entry(Raw(1), ZERO)>>,
     <<Entry(Raw(1), Raw(1)), Entry(Raw(2), ZERO)>>,
     <<Entry(Raw(1), ZERO), Entry(Raw(2), Raw(1))>>,
     <<Entry(Raw(2), Raw(1)), Entry(Raw(2), ZERO)>>,
     FullSegment,
     SegmentAndDefault}

InitModes ==
    /\ \E capacity \in 1..2 : svc = SegmentVC_new(capacity)
    /\ svcPrev = svc
    /\ svcOp = NoOp
    /\ svcKeys = <<>>
    /\ svcRoots = <<>>
    /\ svcMoments = NoMoments
    /\ EarlierIdle /\ CanonIdle /\ CalcIdle /\ ThirdIdle

\* What a call leaves behind: r is its outcome, entries the entries it was
\* asked to insert.  Inserts succeed in order up to the first failure.
Leaves(op, key, value, entries, r, root) ==
    /\ svcOp.n < MaxTreeOps
    /\ svc' = r.vc
    /\ svcPrev' = svc
    /\ svcOp' = [op |-> op, key |-> key, value |-> value, entries |-> entries,
                 res |-> r.res, root |-> root, n |-> svcOp.n + 1]
    /\ svcKeys' = svcKeys \o [i \in 1..(r.vc.total_size - svc.total_size) |->
                                 entries[i].key]
    /\ svcRoots' = IF total_added(r.vc.root_history) > total_added(svc.root_history)
                   THEN Append(svcRoots, r.vc.root_hash)
                   ELSE svcRoots
    /\ svcMoments' =
           [built_only |-> svcMoments.built_only /\ op \in {"insert", "update"},
            moments |-> svcMoments.moments \cup
                {[root |-> r.vc.root_hash,
                  stored |-> [k \in DOMAIN r.vc.indices |-> get_value(r.vc, k)]]}]
    /\ UNCHANGED <<storeVars, treeVars, overpayVars, profitVars, settleVars,
                   canonVars, calcVars, thirdVars>>

Insert(key, value) ==
    \E r \in {insert(svc, key, value)} :
        Leaves("insert", key, value, <<Entry(key, value)>>, r,
               IF r.res = "ok" THEN r.vc.root_hash ELSE ZERO)

Update(key, value) ==
    \E r \in {update(svc, key, value)} :
        Leaves("update", key, value, <<>>, r,
               IF r.res = "ok" THEN r.vc.root_hash ELSE ZERO)

StartBuilding ==
    \E r \in {[res |-> "ok", vc |-> start_building(svc)]} :
        Leaves("start_building", ZERO, ZERO, <<>>, r, ZERO)

FinishBuilding ==
    \E r \in {finish_building(svc)} :
        Leaves("finish_building", ZERO, ZERO, <<>>, r, r.root)

InsertBatch(entries) ==
    \E r \in {insert_batch(svc, entries)} :
        Leaves("insert_batch", ZERO, ZERO, entries, r, r.root)

NextModes ==
    \/ \E key \in ModeKeys, value \in ModeValues : Insert(key, value)
    \/ \E key \in ModeKeys, value \in ModeValues : Update(key, value)
    \/ StartBuilding
    \/ FinishBuilding
    \/ \E entries \in BatchLists : InsertBatch(entries)

SpecModes == InitModes /\ [][NextModes]_vars

\* a root this tree never had
ForeignRoot == Raw(99)

\* C11: verify(key, value, history_root) is true exactly when the value stored
\* at key is value and history_root is the current root or an earlier root of
\* this tree, whether or not the history store still holds it in its window.
C11_VerifyHistory ==
    \A key \in DOMAIN svc.indices, value \in ModeValues,
       history_root \in Range(svcRoots) \cup {svc.root_hash, ForeignRoot} :
        (verify(svc, key, value, history_root) = "true")
            <=> /\ get_value(svc, key) = value
                /\ \/ history_root = svc.root_hash
                   \/ history_root \in Range(svcRoots)

\* the keys of a list of entries are pairwise distinct
DistinctKeys(entries) ==
    \A i, j \in 1..Len(entries) : i # j => entries[i].key # entries[j].key

\* a tree as SegmentVC::new leaves it
Fresh(t) == t = SegmentVC_new(t.root_history.capacity)

\* the tree that inserting the entries one by one in Built mode gives
Sequential(capacity, entries) == InsertAll(SegmentVC_new(capacity), entries)

\* C12: insert_batch of entries with pairwise distinct keys (any values, the
\* all-zero value included) on a fresh tree gives the root, the stored values
\* and the proof of every key that inserting the entries one by one in Built
\* mode gives.
C12_BatchIsSequential ==
    (/\ svcOp.op = "insert_batch"
     /\ Fresh(svcPrev)
     /\ svcOp.entries # <<>>
     /\ DistinctKeys(svcOp.entries))
        => \E seq \in {Sequential(svcPrev.root_history.capacity, svcOp.entries)} :
               /\ svcOp.res = "ok"
               /\ seq.res = "ok"
               /\ svcOp.root = seq.vc.root_hash
               /\ svc.root_hash = seq.vc.root_hash
               /\ DOMAIN svc.indices = DOMAIN seq.vc.indices
               /\ \A key \in DOMAIN seq.vc.indices :
                      /\ get_value(svc, key) = get_value(seq.vc, key)
                      /\ generate_proof(svc, key) = generate_proof(seq.vc, key)

\* C13: in Building mode a successful insert(key, value) stores the value
\* and assigns the next slot, leaves root_hash, the stored tree levels (segment
\* chunk hashes and roots, upper levels) and the root history unchanged, and
\* returns the unchanged root.
C13_StagedInsertInert ==
    (/\ svcOp.op = "insert"
     /\ svcOp.res = "ok"
     /\ svcPrev.building_mode = "Building")
        => /\ get_value(svc, svcOp.key) = svcOp.value
           /\ svc.indices[svcOp.key] = svcPrev.total_size + 1
           /\ svc.total_size = svcPrev.total_size + 1
           /\ svc.root_hash = svcPrev.root_hash
           /\ svc.merkle_nodes = svcPrev.merkle_nodes
           /\ \A i \in 1..Len(svcPrev.segments) :
                  /\ svc.segments[i].chunk_hashes = svcPrev.segments[i].chunk_hashes
                  /\ svc.segments[i].root = svcPrev.segments[i].root
           /\ svc.root_history = svcPrev.root_history
           /\ svcOp.root = svcPrev.root_hash
           /\ svc.building_mode = "Building"

\* a value staged on top of a tree that was built before
C13_Witness ==
    /\ svcOp.op = "insert"
    /\ svcOp.res = "ok"
    /\ svcPrev.building_mode = "Building"
    /\ svcPrev.root_hash # ZERO
    /\ svcOp.value # ZERO
    /\ get_value(svc, svcOp.key) = svcOp.value

\* the upper tree over the segment roots of t
UpperTree(t) ==
    BuildLevels([i \in 1..Len(t.segments) |-> t.segments[i].root], 0, EmptyMap)

\* Every segment of t with a value that is not the default has its chunk
\* hashes and root computed from its values, and the root of t is the top of
\* the tree over the segment roots.
Recomputed(t) ==
    /\ \A i \in 1..Len(t.segments) :
           (\E j \in 1..Len(t.segments[i].values) :
                t.segments[i].values[j] # ZERO)
               => /\ t.segments[i].chunk_hashes = ChunkHashes(t.segments[i].values)
                  /\ t.segments[i].root = keccak256(t.segments[i].chunk_hashes)
    /\ t.merkle_nodes[0] = [i \in 1..Len(t.segments) |-> t.segments[i].root]
    /\ t.root_hash = UpperTree(t).top[1]

\* C14: a new SegmentVC is in Built mode; the mode goes from Built to Building
\* only by start_building (called directly or by insert_batch); a successful
\* finish_building in Building mode recomputes the tree, records exactly one
\* root into the history store and leaves the mode Built; finish_building in
\* Built mode changes nothing and returns the current root.
C14_ModeMachine ==
    /\ svcOp.op = "none" => svc.building_mode = "Built"
    /\ (svcPrev.building_mode = "Built" /\ svc.building_mode = "Building")
           => svcOp.op \in {"start_building", "insert_batch"}
    /\ (/\ svcOp.op = "finish_building"
        /\ svcOp.res = "ok"
        /\ svcPrev.building_mode = "Building")
           => /\ svc.building_mode = "Built"
              /\ Recomputed(svc)
              /\ total_added(svc.root_history)
                     = total_added(svcPrev.root_history) + 1
              /\ svc.root_history.hashes[Len(svc.root_history.hashes)]
                     = svc.root_hash
              /\ svcOp.root = svc.root_hash
    /\ (svcOp.op = "finish_building" /\ svcPrev.building_mode = "Built")
           => /\ svcOp.res = "ok"
              /\ svc = svcPrev
              /\ svcOp.root = svcPrev.root_hash

\* staged values are built into a tree that had a root before
C14_Witness ==
    /\ svcOp.op = "finish_building"
    /\ svcOp.res = "ok"
    /\ svcPrev.building_mode = "Building"
    /\ svcPrev.root_hash # ZERO
    /\ svc.root_hash # svcPrev.root_hash
    /\ svc.building_mode = "Built"

\* the value in slot i (0-based) of t: segment i / 16, local index i % 16
ValueInSlot(t, i) ==
    t.segments[(i \div SEGMENT_SIZE) + 1].values[(i % SEGMENT_SIZE) + 1]

\* C15: insert of a key that is already mapped fails with KeyExists in both
\* modes and leaves the whole tree unchanged; a successful insert maps the key
\* to the next slot, so that the i-th accepted key (0-based) lives at segment
\* i / 16, local index i % 16.
C15_KeyExistsAndSlots ==
    /\ (svcOp.op = "insert" /\ svcOp.key \in DOMAIN svcPrev.indices)
           => /\ svcOp.res = "KeyExists"
              /\ svc = svcPrev
    /\ (svcOp.op = "insert" /\ svcOp.key \notin DOMAIN svcPrev.indices)
           => /\ svcOp.res = "ok"
              /\ svcKeys[Len(svcKeys)] = svcOp.key
              /\ ValueInSlot(svc, Len(svcKeys) - 1) = svcOp.value
    /\ svc.total_size = Len(svcKeys)
    /\ DOMAIN svc.indices = Range(svcKeys)
    /\ \A i \in 0..(Len(svcKeys) - 1) :
           /\ svc.indices[svcKeys[i + 1]] = i + 1
           /\ i \div SEGMENT_SIZE < Len(svc.segments)
           /\ i % SEGMENT_SIZE < Len(svc.segments[(i \div SEGMENT_SIZE) + 1].values)
           /\ get_value(svc, svcKeys[i + 1]) = ValueInSlot(svc, i)

\* a mapped key is refused in Building mode by a tree of two segments
C15_Witness ==
    /\ svcOp.op = "insert"
    /\ svcOp.res = "KeyExists"
    /\ svc.building_mode = "Building"
    /\ svc.total_size > SEGMENT_SIZE
    /\ svc.indices[svcOp.key] = SEGMENT_SIZE + 1
    /\ Len(svc.segments[2].values) = 1

\* the entries of t in slot order, under the keys it accepted
EntriesOf(t) ==
    [i \in 1..Len(svcKeys) |-> Entry(svcKeys[i], get_value(t, svcKeys[i]))]

\* C16: update(key, v) on a mapped key in Built mode changes only that key's
\* value (slots and the other values are kept, get_value(key) is v), and the
\* resulting root and proofs are those of a fresh tree built by inserting the
\* same keys in the same order with v in place of the old value; update on an
\* unmapped key fails with KeyNotFound and leaves the tree unchanged.
C16_UpdateIsRebuild ==
    /\ (/\ svcOp.op = "update"
        /\ svcPrev.building_mode = "Built"
        /\ svcOp.key \in DOMAIN svcPrev.indices)
           => /\ svcOp.res = "ok"
              /\ svc.indices = svcPrev.indices
              /\ svc.total_size = svcPrev.total_size
              /\ get_value(svc, svcOp.key) = svcOp.value
              /\ \A key \in DOMAIN svcPrev.indices \ {svcOp.key} :
                     get_value(svc, key) = get_value(svcPrev, key)
              /\ \E fresh \in {Sequential(svc.root_history.capacity,
                                           EntriesOf(svc))} :
                     /\ fresh.res = "ok"
                     /\ svc.root_hash = fresh.vc.root_hash
                     /\ svcOp.root = fresh.vc.root_hash
                     /\ \A key \in DOMAIN svc.indices :
                            generate_proof(svc, key)
                                = generate_proof(fresh.vc, key)
    /\ (svcOp.op = "update" /\ svcOp.key \notin DOMAIN svcPrev.indices)
           => /\ svcOp.res = "KeyNotFound"
              /\ svc = svcPrev

-----------------------------------------------------------------------------
(* The canonicalizers PayIdsProcessor and PaymentsGrouper, each asked about *)
(* a list and about the same list in another order.  Both are functions of  *)
(* their argument alone: a behaviour asks one question.                     *)

\* PayIdInfos: three ids, and a second record under the first id
CanonPayIds ==
    {PayIdInfo(1, 100, Sender1, Proxy1), PayIdInfo(2, 200, Sender1, Proxy1),
     PayIdInfo(3, 300, Sender1, Proxy1), PayIdInfo(1, 500, Sender1, Proxy1)}

\* receipts of two receivers, and a second receipt under the first content key
CanonReceipts ==
    {PaymentSettledByProxy(1, 1, 100, Receiver1, TRUE),
     PaymentSettledByProxy(2, 1, 300, Receiver2, TRUE),
     PaymentSettledByProxy(1, 2, 200, Receiver1, TRUE),
     PaymentSettledByProxy(1, 1, 150, Receiver1, TRUE)}

\* every list of at most MaxCanon elements of S
CanonLists(S) == {<<>>} \cup ListsOver(S, MaxCanon)

\* the orders of n elements
Perms(n) == {p \in [1..n -> 1..n] : \A i, j \in 1..n : i # j => p[i] # p[j]}

\* the list s in the order p
Permute(s, p) == [i \in 1..Len(s) |-> s[p[i]]]

InitCanon == EarlierIdle /\ ModeIdle /\ CanonIdle /\ CalcIdle /\ ThirdIdle

GetRootHash(pay_ids, perm) ==
    /\ cnOut.op = "none"
    /\ cnIn' = [pay_ids |-> pay_ids, receipts |-> <<>>]
    /\ cnOut' = [op |-> "get_root_hash", perm |-> perm,
                 first |-> get_root_hash(pay_ids),
                 second |-> get_root_hash(Permute(pay_ids, perm))]
    /\ UNCHANGED <<storeVars, treeVars, overpayVars, profitVars, settleVars,
                   modeVars, calcVars, thirdVars>>

GroupByReceiver(receipts, perm) ==
    /\ cnOut.op = "none"
    /\ cnIn' = [pay_ids |-> <<>>, receipts |-> receipts]
    /\ cnOut' = [op |-> "group_by_receiver", perm |-> perm,
                 first |-> group_by_receiver(receipts),
                 second |-> group_by_receiver(Permute(receipts, perm))]
    /\ UNCHANGED <<storeVars, treeVars, overpayVars, profitVars, settleVars,
                   modeVars, calcVars, thirdVars>>

NextCanon ==
    \/ \E pay_ids \in CanonLists(CanonPayIds) :
           \E perm \in Perms(Len(pay_ids)) : GetRootHash(pay_ids, perm)
    \/ \E receipts \in CanonLists(CanonReceipts) :
           \E perm \in Perms(Len(receipts)) : GroupByReceiver(receipts, perm)

SpecCanon == InitCanon /\ [][NextCanon]_vars

\* C17: get_root_hash gives the same outcome (the same root, or an error in
\* both cases) for two PayIdInfo lists that are permutations of each other.
C17_PayIdOrderIndependent ==
    cnOut.op = "get_root_hash"
        => /\ cnOut.first.res = "ok" <=> cnOut.second.res = "ok"
           /\ cnOut.first.res = "ok" => cnOut.first.root = cnOut.second.root

\* three PayIdInfos given in ascending and in another order
C17_Witness ==
    /\ cnOut.op = "get_root_hash"
    /\ Len(cnIn.pay_ids) = 3
    /\ cnIn.pay_ids[1].id < cnIn.pay_ids[2].id
    /\ cnIn.pay_ids[2].id < cnIn.pay_ids[3].id
    /\ Permute(cnIn.pay_ids, cnOut.perm) # cnIn.pay_ids
    /\ cnOut.first.res = "ok"
    /\ cnOut.first.root = cnOut.second.root
    /\ cnOut.first.root # ZERO

\* C18: group_by_receiver gives the same root and the same per-receiver
\* proofs for two receipt lists that are permutations of each other.
C18_GroupingOrderIndependent ==
    cnOut.op = "group_by_receiver"
        => /\ cnOut.first.res = "ok" <=> cnOut.second.res = "ok"
           /\ cnOut.first.res = "ok"
                  => /\ cnOut.first.root = cnOut.second.root
                     /\ cnOut.first.receiver_proofs = cnOut.second.receiver_proofs

-----------------------------------------------------------------------------
(* SpecCalc: a batch goes through ReceiptsOverpayChecker::process, then a    *)
(* ReceiptsProfitCalculator is built for one receiver out of the batch and   *)
(* the proof emitted for it, as the tests of profit_calculator.rs do, or out *)
(* of inputs that differ from those in one place.                            *)

\* the secret key that controls an address
SecretKeyOf(address) == 1000 + address

\* A settled receipt whose sig_sender is over the message recover_signer
\* rebuilds, signed by the proxy.
SignedReceipt(pay_id, serv_id, amount, receiver, sender, proxy) ==
    LET p == PaymentSettledByProxy(pay_id, serv_id, amount, receiver, TRUE)
        q == [p EXCEPT !.sig_sender =
                  sign(Payment_recovered_hash(p), SecretKeyOf(sender))]
    IN  sign_by_proxy(q, SecretKeyOf(proxy))

\* create_test_payment: Payment::sign, set_settlement, sign_by_proxy
create_test_payment(pay_id, serv_id, amount, receiver, sender, proxy) ==
    LET p == PaymentSettledByProxy(pay_id, serv_id, amount, receiver, TRUE)
    IN  sign_by_proxy(Payment_sign(p, SecretKeyOf(sender)), SecretKeyOf(proxy))

\* Receipts of two receivers: three that the calculator accepts, one signed
\* through Payment::sign, one signed by another proxy.
CalcReceipts ==
    {SignedReceipt(1, 1, 100, Receiver1, Sender1, Proxy1),
     SignedReceipt(2, 1, 200, Receiver1, Sender1, Proxy1),
     SignedReceipt(1, 2, 300, Receiver2, Sender1, Proxy1),
     create_test_payment(2, 2, 150, Receiver1, Sender1, Proxy1),
     SignedReceipt(2, 1, 120, Receiver2, Sender1, Proxy2)}

CalcBatches ==
    {s \in UNION {[1..n -> CalcReceipts] : n \in 1..MaxCalc} :
        \A i, j \in 1..Len(s) : i # j => s[i] # s[j]}

CalcPayIdInfos ==
    <<PayIdInfo(1, 1000, Sender1, Proxy1), PayIdInfo(2, 1000, Sender1, Proxy1)>>

CalcServiceConfigs ==
    <<ServiceFeeConfig(1, 500, 1000), ServiceFeeConfig(2, 300, 700)>>

CalcVariants ==
    {"genuine", "proxy", "receiver", "proof", "root", "dropped", "amount",
     "info_missing", "info_sender", "info_proxy", "config_missing"}

\* the proof process emitted for a receiver
ProofOf(outcome, receiver) ==
    outcome.receiver_proofs[
        CHOOSE i \in 1..Len(outcome.receiver_proofs) :
            outcome.receiver_proofs[i].receiver = receiver].proof

\* a proof process did not emit for the receiver
OtherProof(outcome, receiver) ==
    LET others == {i \in 1..Len(outcome.receiver_proofs) :
                      outcome.receiver_proofs[i].receiver # receiver}
    IN  IF others = {} THEN NoProof
        ELSE outcome.receiver_proofs[CHOOSE i \in others : TRUE].proof

\* the calculator c with one of its inputs replaced
Replace(c, variant, outcome) ==
    CASE variant = "genuine" -> c
      [] variant = "proxy" -> [c EXCEPT !.proxy = Proxy2]
      [] variant = "receiver" -> [c EXCEPT !.receiver = Receiver3]
      [] variant = "proof" ->
             [c EXCEPT !.merkle_proof = OtherProof(outcome, c.receiver)]
      [] variant = "root" ->
             [c EXCEPT !.merkle_proof.root_hash = Raw(99)]
      [] variant = "dropped" -> [c EXCEPT !.receipts = Tail(c.receipts)]
      [] variant = "amount" ->
             [c EXCEPT !.receipts[1].amount = c.receipts[1].amount + 1]
      [] variant = "info_missing" ->
             [c EXCEPT !.pay_id_infos = <<CalcPayIdInfos[1]>>]
      [] variant = "info_sender" ->
             [c EXCEPT !.pay_id_infos[2].sender = Proxy1]
      [] variant = "info_proxy" ->
             [c EXCEPT !.pay_id_infos[2].proxy = Proxy2]
      [] variant = "config_missing" ->
             [c EXCEPT !.service_configs = <<CalcServiceConfigs[1]>>]

InitCalc ==
    /\ EarlierIdle /\ ModeIdle /\ CanonIdle /\ ThirdIdle
    /\ pcIn \in {[settled_payments |-> b, outcome |-> NoOutcome] :
                    b \in CalcBatches}
    /\ pcOut = NoCalculation

\* ReceiptsOverpayChecker::new(proxy, pay_id_infos, receipts).process()
ProcessBatch ==
    /\ pcIn.outcome.op = "none"
    /\ \E o \in process(Proxy1, CalcPayIdInfos, pcIn.settled_payments) :
           pcIn' = [pcIn EXCEPT !.outcome = o]
    /\ UNCHANGED <<storeVars, treeVars, overpayVars, profitVars, settleVars,
                   modeVars, canonVars, thirdVars, pcOut>>

\* ReceiptsProfitCalculator::new(...).calculate() for a receiver of the batch
Calculate(receiver, perm, variant) ==
    /\ pcIn.outcome.res = "ok"
    /\ pcOut.op = "none"
    /\ Len(perm) = Len(SelectSeq(pcIn.settled_payments,
                                 LAMBDA p : p.receiver = receiver))
    /\ Len(perm) > 0
    /\ \E c \in {Replace(ReceiptsProfitCalculator_new(
                            receiver, Proxy1,
                            Permute(SelectSeq(pcIn.settled_payments,
                                        LAMBDA p : p.receiver = receiver), perm),
                            ProofOf(pcIn.outcome, receiver),
                            CalcPayIdInfos, CalcServiceConfigs),
                        variant, pcIn.outcome)} :
           \E r \in {calculate(c)} :
               pcOut' = [op |-> "calculate", variant |-> variant,
                         calculator |-> c, merkle |-> validate_merkle_proof(c),
                         res |-> r.res, result |-> r.result]
    /\ UNCHANGED <<storeVars, treeVars, overpayVars, profitVars, settleVars,
                   modeVars, canonVars, thirdVars, pcIn>>

NextCalc ==
    \/ ProcessBatch
    \/ \E receiver \in {Receiver1, Receiver2} :
           \E perm \in UNION {Perms(n) : n \in 1..MaxCalc} :
               \E variant \in CalcVariants : Calculate(receiver, perm, variant)

SpecCalc == InitCalc /\ [][NextCalc]_vars

\* the receipts s in an order of non-descending content keys
InKeyOrder(s) ==
    \A i, j \in 1..Len(s) :
        i < j => KeyOrder(to_key(s[i])) <= KeyOrder(to_key(s[j]))

BatchReceiptsOf(r) == SelectSeq(pcIn.settled_payments, LAMBDA p : p.receiver = r)

\* the calculator holds the proof emitted for r and exactly r's receipts
GivenBatchReceiptsOf(r) ==
    /\ pcOut.op = "calculate"
    /\ BatchReceiptsOf(r) # <<>>
    /\ pcOut.calculator.merkle_proof = ProofOf(pcIn.outcome, r)
    /\ \E perm \in Perms(Len(BatchReceiptsOf(r))) :
           pcOut.calculator.receipts = Permute(BatchReceiptsOf(r), perm)

\* C20: for a batch process accepted, the proof emitted for receiver r passes
\* validate_merkle_proof together with r's receipts in any order, and the
\* receipts_root of the ProfitResult is the payments_root of the batch.
C20_EmittedProofValidates ==
    \A r \in {Receiver1, Receiver2} :
        GivenBatchReceiptsOf(r)
            => /\ pcOut.merkle = "ok"
               /\ pcOut.res = "ok"
                      => pcOut.result.receipts_root = pcIn.outcome.payments_root

\* a batch of two receivers; the receipts of the first one are given to the
\* calculator in an order that is not the order of their keys
C20_Witness ==
    /\ GivenBatchReceiptsOf(Receiver1)
    /\ BatchReceiptsOf(Receiver2) # <<>>
    /\ Len(pcOut.calculator.receipts) = 2
    /\ ~InKeyOrder(pcOut.calculator.receipts)
    /\ pcOut.merkle = "ok"
    /\ pcOut.res = "ok"
    /\ pcOut.result.receipts_root = pcIn.outcome.payments_root
    /\ pcOut.result.receipts_root # ZERO

-----------------------------------------------------------------------------
(* SpecSign: a Payment is signed by its sender, turned into a                *)
(* PaymentSettledByProxy, settled and signed by a proxy; the signatures are  *)
(* recovered and verified, also after one signed field was changed.          *)

SignKeys == {SecretKeyOf(Sender1), SecretKeyOf(Proxy1), SecretKeyOf(Proxy2)}

SignPayments ==
    {Payment(pay_id, 1, amount, receiver) :
        pay_id \in {1, 2}, amount \in {0, 100}, receiver \in {Receiver1, Receiver2}}

\* the signed fields and a value each may be changed to
FieldChanges ==
    {<<"pay_id", 3>>, <<"serv_id", 2>>, <<"amount", 200>>, <<"amount", 0>>,
     <<"receiver", Receiver3>>, <<"sig_sender", 0>>, <<"settled", 0>>}

ChangeField(p, field, value) ==
    CASE field = "pay_id" -> [p EXCEPT !.pay_id = value]
      [] field = "serv_id" -> [p EXCEPT !.serv_id = value]
      [] field = "amount" -> [p EXCEPT !.amount = value]
      [] field = "receiver" -> [p EXCEPT !.receiver = value]
      [] field = "sig_sender" -> [p EXCEPT !.sig_sender = Raw(value)]
      [] field = "settled" -> [p EXCEPT !.settled = ~p.settled]

InitSign ==
    /\ EarlierIdle /\ ModeIdle /\ CanonIdle /\ CalcIdle
    /\ SettlerIdle /\ TwinIdle /\ FourthIdle
    /\ sgIn \in {[payment |-> payment, p |-> PaymentSettledByProxy_from(payment),
                  sender_key |-> 0, proxy_key |-> 0, changed |-> FALSE] :
                    payment \in SignPayments}
    /\ sgOut = NoSigning

SignUnchanged ==
    UNCHANGED <<storeVars, treeVars, overpayVars, profitVars, settleVars,
                modeVars, canonVars, calcVars, settlerVars, twinVars,
                fourthVars>>

\* payment.sign(k); payment.get_signer_address(); payment.into()
SignPayment(k) ==
    /\ sgIn.sender_key = 0
    /\ \E payment \in {Payment_sign(sgIn.payment, k)} :
           /\ sgIn' = [sgIn EXCEPT !.payment = payment,
                                   !.p = PaymentSettledByProxy_from(payment),
                                   !.sender_key = k]
           /\ sgOut' = [NoSigning EXCEPT
                           !.op = "sign", !.key = k,
                           !.recovered = recover_signer(payment),
                           !.address = get_signer_address(payment),
                           !.sender = get_sender_address(
                                          PaymentSettledByProxy_from(payment))]
    /\ SignUnchanged

\* set_settlement(amount, true); sign_by_proxy(k)
SignByProxy(amount, k) ==
    /\ sgIn.sender_key # 0
    /\ sgIn.proxy_key = 0
    /\ \E p \in {sign_by_proxy(set_settlement(sgIn.p, amount, TRUE), k)} :
           /\ sgIn' = [sgIn EXCEPT !.p = p, !.proxy_key = k]
           /\ sgOut' = [NoSigning EXCEPT
                           !.op = "sign_by_proxy", !.key = k,
                           !.verified = verify_proxy_signature(
                                            p, PublicKey_from_secret_key(k)),
                           !.recovered = recover_proxy_signer(p),
                           !.address = get_proxy_address(p),
                           !.sender = get_sender_address(p)]
    /\ SignUnchanged

\* verify_proxy_signature(pub(k))
VerifyProxySignature(k) ==
    /\ sgIn.proxy_key # 0
    /\ ~sgIn.changed
    /\ sgOut' = [NoSigning EXCEPT
                    !.op = "verify_proxy_signature", !.key = k,
                    !.verified = verify_proxy_signature(
                                     sgIn.p, PublicKey_from_secret_key(k))]
    /\ UNCHANGED sgIn
    /\ SignUnchanged

\* one signed field is assigned another value, then the signature verified
\* with the signer's public key
ChangeAndVerify(field, value) ==
    /\ sgIn.proxy_key # 0
    /\ ~sgIn.changed
    /\ \E p \in {ChangeField(sgIn.p, field, value)} :
           /\ p # sgIn.p
           /\ sgIn' = [sgIn EXCEPT !.p = p, !.changed = TRUE]
           /\ sgOut' = [NoSigning EXCEPT
                           !.op = "change", !.key = sgIn.proxy_key,
                           !.field = field,
                           !.verified = verify_proxy_signature(
                               p, PublicKey_from_secret_key(sgIn.proxy_key))]
    /\ SignUnchanged

NextSign ==
    \/ \E k \in SignKeys : SignPayment(k)
    \/ \E amount \in {0, 100}, k \in SignKeys : SignByProxy(amount, k)
    \/ \E k \in SignKeys : VerifyProxySignature(k)
    \/ \E c \in FieldChanges : ChangeAndVerify(c[1], c[2])

SpecSign == InitSign /\ [][NextSign]_vars

\* the address of the public key of a secret key
AddressOfKey(k) ==
    [res |-> "ok",
     address |-> get_ethereum_address(PublicKey_from_secret_key(k))]

\* C21: after p.sign(k), p.get_signer_address() is the address of k, and so
\* is get_sender_address() of the PaymentSettledByProxy made of p with the
\* same amount.
C21_SenderSymmetric ==
    sgOut.op = "sign"
        => /\ sgOut.address = AddressOfKey(sgOut.key)
           /\ sgOut.sender = AddressOfKey(sgOut.key)

\* C22: after sign_by_proxy(k), verify_proxy_signature(pub(k)) is true,
\* recover_proxy_signer() is pub(k) and get_proxy_address() the address of k;
\* verification with the public key of another secret key is false; and after
\* a change of one of pay_id, serv_id, amount, receiver, sig_sender, settled
\* verify_proxy_signature(pub(k)) is false.
C22_ProxySymmetric ==
    /\ sgOut.op = "sign_by_proxy"
           => /\ sgOut.verified = "true"
              /\ sgOut.recovered =
                     [res |-> "ok",
                      public_key |-> PublicKey_from_secret_key(sgOut.key)]
              /\ sgOut.address = AddressOfKey(sgOut.key)
    /\ sgOut.op = "verify_proxy_signature"
           => (sgOut.verified = "true" <=> sgOut.key = sgIn.proxy_key)
    /\ sgOut.op = "change" => sgOut.verified = "false"

\* the settled flag of a receipt signed by the proxy was flipped and the
\* signature no longer verifies
C22_Witness ==
    /\ sgOut.op = "change"
    /\ sgOut.field = "settled"
    /\ sgIn.proxy_key = SecretKeyOf(Proxy1)
    /\ ~sgIn.p.settled
    /\ sgOut.verified = "false"

-----------------------------------------------------------------------------
(* The fee split in exact integer arithmetic *)

\* the configuration calculate_profits finds for a serv_id: the last one
ConfigOf(serv_id) ==
    prIn.service_configs[
        CHOOSE i \in 1..Len(prIn.service_configs) :
            /\ prIn.service_configs[i].serv_id = serv_id
            /\ \A j \in (i + 1)..Len(prIn.service_configs) :
                   prIn.service_configs[j].serv_id # serv_id]

Configured ==
    \A i \in 1..Len(prIn.receipts) :
        \E j \in 1..Len(prIn.service_configs) :
            prIn.service_configs[j].serv_id = prIn.receipts[i].serv_id

\* floor(amount * rate / 10000) over the integers, by parts so that no
\* product leaves the range of the checker's integers:
\* amount = 10000 * q + r gives amount * rate / 10000 = q * rate + r * rate / 10000
ExactFee(amount, rate) ==
    (amount \div 10000) * rate + ((amount % 10000) * rate) \div 10000

\* amount * rate is not a value of the unsigned word
ProductLeavesRange(amount, rate) ==
    rate # 0 /\ amount > U256_MAX \div rate

ExactSystemFee(i) ==
    ExactFee(prIn.receipts[i].amount,
             ConfigOf(prIn.receipts[i].serv_id).system_fee_rate)

ExactProxyFee(i) ==
    ExactFee(prIn.receipts[i].amount,
             ConfigOf(prIn.receipts[i].serv_id).proxy_fee_rate)

ExactRemainder(i) ==
    prIn.receipts[i].amount - ExactSystemFee(i) - ExactProxyFee(i)

\* the sum of f[1], ..., f[n] over the integers
RECURSIVE SumTo(_, _)
SumTo(f, n) == IF n = 0 THEN 0 ELSE f[n] + SumTo(f, n - 1)

ExactSplit ==
    LET n == Len(prIn.receipts)
    IN  [system |-> SumTo([i \in 1..n |-> ExactSystemFee(i)], n),
         proxy |-> SumTo([i \in 1..n |-> ExactProxyFee(i)], n),
         receiver |-> SumTo([i \in 1..n |-> ExactRemainder(i)], n)]

\* some product, difference or running total of the exact computation is not
\* a value of the unsigned word
LeavesRange ==
    \E i \in 1..Len(prIn.receipts) :
        LET amount == prIn.receipts[i].amount
            config == ConfigOf(prIn.receipts[i].serv_id)
        IN  \/ ProductLeavesRange(amount, config.system_fee_rate)
            \/ ProductLeavesRange(amount, config.proxy_fee_rate)
            \/ amount - ExactSystemFee(i) < 0
            \/ ExactRemainder(i) < 0
            \/ SumTo([j \in 1..i |-> ExactSystemFee(j)], i) > U256_MAX
            \/ SumTo([j \in 1..i |-> ExactProxyFee(j)], i) > U256_MAX
            \/ SumTo([j \in 1..i |-> ExactRemainder(j)], i) > U256_MAX

\* C23: whenever calculate_profits returns Ok, system_profit is the sum of
\* floor(amount * system_fee_rate / 10000), proxy_profit the sum of
\* floor(amount * proxy_fee_rate / 10000) and receiver_profit the sum of the
\* remainders, over the integers and with the rates of each receipt's
\* serv_id; a product, sum or difference outside the unsigned word range
\* gives an error.
C23_FeeSplit ==
    /\ prOut.res = "ok"
           => /\ Configured
              /\ prOut.system = ExactSplit.system
              /\ prOut.proxy = ExactSplit.proxy
              /\ prOut.receiver = ExactSplit.receiver
    /\ (prOut.res # "none" /\ Configured /\ LeavesRange) => prOut.res # "ok"

\* rates 500 / 1000 on a receipt of 400 give 20 / 40 / 340, and a product
\* that overflows is one of the inputs
C23_Witness ==
    /\ prOut.res = "ok"
    /\ Len(prIn.receipts) = 1
    /\ prIn.receipts[1].amount = 400
    /\ ConfigOf(prIn.receipts[1].serv_id).system_fee_rate = 500
    /\ ConfigOf(prIn.receipts[1].serv_id).proxy_fee_rate = 1000
    /\ prOut.system = 20
    /\ prOut.proxy = 40
    /\ prOut.receiver = 340

-----------------------------------------------------------------------------
(* The pre-validation of the aggregator *)

\* the ProfitResults disagree, or there is none, or the overpay result names
\* another pay_ids_root
Inconsistent ==
    LET rs == stIn.profit_results
    IN  \/ rs = <<>>
        \/ \E i, j \in 1..Len(rs) :
               \/ rs[i].proxy # rs[j].proxy
               \/ rs[i].pay_ids_root # rs[j].pay_ids_root
               \/ rs[i].receipts_root # rs[j].receipts_root
        \/ \E i \in 1..Len(rs) : rs[i].pay_ids_root # stIn.pay_ids_root

\* aggregate has returned and its result is as returned
Returned == stRes \notin {"none", "id set", "tampered"}

\* C24: aggregate returns an error and no settlement record when the list of
\* ProfitResults is empty, when two of them differ in proxy, pay_ids_root or
\* receipts_root, or when the pay_ids_root of the overpay result differs from
\* theirs; an Ok result carries the proxy, pay_ids_root and serv_ids_root of
\* the first ProfitResult.
C24_PreValidation ==
    Returned
        => /\ Inconsistent => (~Aggregated /\ stl.r = NoSettlement)
           /\ Aggregated
                  => /\ stl.r.proxy = stIn.profit_results[1].proxy
                     /\ stl.r.pay_ids_root = stIn.profit_results[1].pay_ids_root
                     /\ stl.r.serv_ids_root = stIn.profit_results[1].serv_ids_root

\* two ProfitResults with different serv_ids_root were aggregated
C24_Witness ==
    /\ Aggregated
    /\ Len(stIn.profit_results) = 2
    /\ stIn.profit_results[1].serv_ids_root # stIn.profit_results[2].serv_ids_root
    /\ stl.r.serv_ids_root = stIn.profit_results[1].serv_ids_root
    /\ stl.r.proxy = Proxy2

-----------------------------------------------------------------------------
(* SpecSettler: a ReceiverSettler is handed the payments and the             *)
(* ProfitResult of one proxy after another.                                  *)

SettlerPayments ==
    {<<>>,
     <<PaymentSettledByProxy(1, 1, 100, Receiver1, TRUE)>>,
     <<PaymentSettledByProxy(1, 1, 100, Receiver1, TRUE),
       PaymentSettledByProxy(2, 1, 200, Receiver1, TRUE)>>,
     <<PaymentSettledByProxy(2, 1, 200, Receiver1, TRUE),
       PaymentSettledByProxy(1, 1, 100, Receiver1, TRUE)>>}

\* ProfitResults for the payments: the root of some list of payments or the
\* zero root, the settler's receiver or another one, a profit of 70, of the
\* largest value or of one
SettlerProfitResults ==
    {ProfitResult(receiver, Proxy1, receipts_root, ZERO, ZERO, 10, 20,
                  receiver_profit) :
        receiver \in {Receiver1, Receiver3},
        receipts_root \in
            {calculate_payments_root(payments) : payments \in SettlerPayments},
        receiver_profit \in {1, 70, U256_MAX}}

InitSettler ==
    /\ EarlierIdle /\ ModeIdle /\ CanonIdle /\ CalcIdle /\ SignIdle /\ TwinIdle
    /\ FourthIdle
    /\ rcv = ReceiverSettler_new(Receiver1)
    /\ rcvOp = NoSettling
    /\ rcvSum = 0

ProcessProxySettlement(payments, profit_result) ==
    /\ rcvOp.n < MaxSettlements
    /\ \E r \in {process_proxy_settlement(rcv, payments, profit_result)} :
           /\ rcv' = r.settler
           /\ rcvOp' = [op |-> "process_proxy_settlement", res |-> r.res,
                        n |-> rcvOp.n + 1, payments |-> payments,
                        profit_result |-> profit_result,
                        before |-> rcv.total_profit]
           /\ rcvSum' = IF r.res = "ok"
                        THEN rcvSum + profit_result.receiver_profit
                        ELSE rcvSum
    /\ UNCHANGED <<storeVars, treeVars, overpayVars, profitVars, settleVars,
                   modeVars, canonVars, calcVars, signVars, twinVars,
                   fourthVars>>

NextSettler ==
    \E payments \in SettlerPayments, profit_result \in SettlerProfitResults :
        ProcessProxySettlement(payments, profit_result)

SpecSettler == InitSettler /\ [][NextSettler]_vars

\* the call of rcvOp is one the settler has to refuse
Refused ==
    \/ calculate_payments_root(rcvOp.payments) # rcvOp.profit_result.receipts_root
    \/ rcvOp.profit_result.receiver # rcv.receiver
    \/ rcvOp.before + rcvOp.profit_result.receiver_profit > U256_MAX

\* C25: process_proxy_settlement returns an error and leaves total_profit
\* unchanged when the chain hash of the payments is not the receipts_root of
\* the ProfitResult, when the receivers differ or when the sum would overflow,
\* and adds receiver_profit otherwise: total_profit is the exact sum of the
\* receiver_profit of the successful calls.
C25_Accumulation ==
    /\ rcv.total_profit = rcvSum
    /\ rcvOp.op = "process_proxy_settlement"
           => IF Refused
              THEN rcvOp.res # "ok" /\ rcv.total_profit = rcvOp.before
              ELSE /\ rcvOp.res = "ok"
                   /\ rcv.total_profit =
                          rcvOp.before + rcvOp.profit_result.receiver_profit

\* a third call that would overflow is refused after two that were added
C25_Witness ==
    /\ rcvOp.n = 3
    /\ rcvOp.res = "Profit overflow"
    /\ rcvOp.before = 71
    /\ rcv.total_profit = 71
    /\ rcvSum = 71

-----------------------------------------------------------------------------
(* SpecTwin: two fresh trees receive two lists of entries, the second list   *)
(* being the first one under other keys or in another order.                 *)

TwinValues == {ZERO, Raw(1), Raw(2)}

\* entries that fill a segment but for its last slot, with distinct values
TwinPrefix == [i \in 1..(SEGMENT_SIZE - 1) |-> Entry(Raw(50 + i), Raw(50 + i))]

\* the values under the keys 1, 2, ...
Keyed(values) == [i \in 1..Len(values) |-> Entry(Raw(i), values[i])]

\* the entries under keys none of them had
Shifted(entries) ==
    [i \in 1..Len(entries) |-> Entry(Raw(entries[i].key.n + 100), entries[i].value)]

\* the entries with the keys in reverse order and the values in place
Swapped(entries) ==
    [i \in 1..Len(entries) |->
        Entry(entries[Len(entries) + 1 - i].key, entries[i].value)]

\* a fresh tree after the entries, by insert in Built mode or by insert_batch
Build(method, entries) ==
    IF method = "insert"
    THEN InsertAll(SegmentVC_new(1), entries)
    ELSE The({[res |-> r.res, vc |-> r.vc] :
                 r \in {insert_batch(SegmentVC_new(1), entries)}})

InitTwin ==
    /\ EarlierIdle /\ ModeIdle /\ CanonIdle /\ CalcIdle /\ SignIdle /\ SettlerIdle
    /\ TwinIdle /\ FourthIdle

Twins(op, method, first, second) ==
    /\ twOut.op = "none"
    /\ twIn' = [first |-> first, second |-> second]
    /\ twOut' = [op |-> op, first |-> Build(method, first),
                 second |-> Build(method, second)]
    /\ UNCHANGED <<storeVars, treeVars, overpayVars, profitVars, settleVars,
                   modeVars, canonVars, calcVars, signVars, settlerVars,
                   fourthVars>>

\* the same values in the same slots under other keys
Rekey(method, prefix, values, shifted) ==
    /\ Len(values) > 0
    /\ Twins("rekey", method, prefix \o Keyed(values),
             IF shifted THEN Shifted(prefix \o Keyed(values))
                        ELSE Swapped(prefix \o Keyed(values)))

\* the same entries in another order
Reorder(method, prefix, values, perm) ==
    /\ Len(perm) = Len(values)
    /\ \A i, j \in 1..Len(values) : i # j => values[i] # values[j]
    /\ Twins("reorder", method, prefix \o Keyed(values),
             prefix \o Permute(Keyed(values), perm))

NextTwin ==
    \/ \E method \in {"insert", "insert_batch"}, prefix \in {<<>>, TwinPrefix},
          values \in ListsOver(TwinValues, MaxTwin), shifted \in BOOLEAN :
           Rekey(method, prefix, values, shifted)
    \/ \E method \in {"insert", "insert_batch"}, prefix \in {<<>>, TwinPrefix},
          values \in ListsOver(TwinValues, MaxTwin),
          perm \in UNION {Perms(n) : n \in 1..MaxTwin} :
           Reorder(method, prefix, values, perm)

SpecTwin == InitTwin /\ [][NextTwin]_vars

\* C26: two trees that received the same values in the same slots under
\* different keys have the same root and, slot by slot, the same proofs; the
\* same entries (pairwise distinct values) inserted in a different order give
\* a different root.
C26_RootOfValues ==
    /\ twOut.op = "rekey"
           => /\ twOut.first.res = twOut.second.res
              /\ twOut.first.res = "ok"
                     => /\ twOut.first.vc.root_hash = twOut.second.vc.root_hash
                        /\ \A i \in 1..Len(twIn.first) :
                               generate_proof(twOut.first.vc, twIn.first[i].key)
                                   = generate_proof(twOut.second.vc,
                                                    twIn.second[i].key)
    /\ (/\ twOut.op = "reorder"
        /\ twIn.first # twIn.second
        /\ twOut.first.res = "ok"
        /\ twOut.second.res = "ok")
           => twOut.first.vc.root_hash # twOut.second.vc.root_hash

\* two trees of two segments with the same values under disjoint keys
C26_Witness ==
    /\ twOut.op = "rekey"
    /\ twOut.first.res = "ok"
    /\ Len(twIn.first) > SEGMENT_SIZE
    /\ \A i, j \in 1..Len(twIn.first) : twIn.first[i].key # twIn.second[j].key
    /\ twOut.first.vc.root_hash = twOut.second.vc.root_hash
    /\ twOut.first.vc.root_hash # ZERO
    /\ generate_proof(twOut.first.vc, twIn.first[SEGMENT_SIZE + 1].key).res = "ok"

-----------------------------------------------------------------------------
(* The live window of the root history *)

\* C27: the live window of the root history of a SegmentVC never holds the
\* same root twice, whatever insert, update (also to the value already
\* stored), finish_building and insert_batch did to the tree.
C27_WindowDistinct == Distinct(svc.root_history.hashes)

-----------------------------------------------------------------------------
(* The outcome of the overpay checker as a function of its input *)

\* C28: the outcome of process (the Ok value, or the error and the pay_id it
\* names) is a function of the input lists: every run on the input of this
\* behaviour reports the outcome this run reported.
C28_Deterministic ==
    ocOut.op = "process" =>
        \A o \in process(ocIn.channel, ocIn.pay_id_infos, ocIn.settled_payments) :
            o = ocOut

\* the totals validate_overpayment compares with the PayIdInfo amounts
Totals == pay_id_totals(ocIn.settled_payments, EmptyMap)

\* C30: the total validate_overpayment compares with PayIdInfo.amount is the
\* exact sum of the receipt amounts of the pay_id, and a batch in which the
\* receipts of one pay_id sum to more than the largest U256 is rejected.
C30_NoWraparound ==
    ocOut.op = "validate_overpayment" =>
        /\ \A pay_id \in BatchPayIds :
               Totals[pay_id] = ExactSum(ocIn.settled_payments, pay_id)
        /\ (\E pay_id \in BatchPayIds :
                ExactSum(ocIn.settled_payments, pay_id) > U256_MAX)
               => ocOut.res # "ok"

-----------------------------------------------------------------------------
(* The history digest of the store *)

\* the hashes that left the window, in eviction order
Evicted == SubSeq(added, 1, Len(added) - Len(store.hashes))

\* H(...H(H(e0 || e1) || e2)... || em) for a non-empty list e0, ..., em
RECURSIVE LeftFold(_)
LeftFold(evicted) ==
    IF Len(evicted) = 1
    THEN evicted[1]
    ELSE keccak256(<<LeftFold(SubSeq(evicted, 1, Len(evicted) - 1)),
                     evicted[Len(evicted)]>>)

-----------------------------------------------------------------------------
(* SpecPipeline: a batch goes through ReceiptsOverpayChecker::process, then  *)
(* through ReceiptsProfitCalculator::calculate once per receiver, and the    *)
(* ProfitResults go to ProxySettlementAggregator::aggregate and to a         *)
(* ReceiverSettler.                                                          *)

\* the receipts of the batch that name the receiver, in batch order
PipeReceiptsOf(receiver) ==
    SelectSeq(ppIn.settled_payments, LAMBDA p : p.receiver = receiver)

\* the ProfitResults calculated so far
PipeResults == [i \in 1..Len(ppOut.calculated) |-> ppOut.calculated[i].result]

InitPipeline ==
    /\ EarlierIdle /\ ModeIdle /\ CanonIdle /\ CalcIdle
    /\ SignIdle /\ SettlerIdle /\ TwinIdle /\ ProofIdle
    /\ ppIn \in {[settled_payments |-> b] : b \in CalcBatches}
    /\ ppOut = [overpay |-> NoOutcome, calculated |-> <<>>,
                aggregated |-> NoStage, reconciled |-> NoStage]

PipeUnchanged ==
    UNCHANGED <<storeVars, treeVars, overpayVars, profitVars, settleVars,
                modeVars, canonVars, calcVars, signVars, settlerVars, twinVars,
                proofVars, ppIn>>

\* ReceiptsOverpayChecker::new(proxy, pay_id_infos, receipts).process()
PipeProcess ==
    /\ ppOut.overpay.op = "none"
    /\ \E o \in process(Proxy1, CalcPayIdInfos, ppIn.settled_payments) :
           ppOut' = [ppOut EXCEPT !.overpay = o]
    /\ PipeUnchanged

\* ReceiptsProfitCalculator::new(...).calculate() for the next receiver that
\* process emitted a proof for
PipeCalculate ==
    /\ ppOut.overpay.res = "ok"
    /\ ppOut.aggregated.op = "none"
    /\ ppOut.reconciled.op = "none"
    /\ Len(ppOut.calculated) < Len(ppOut.overpay.receiver_proofs)
    /\ \E rp \in {ppOut.overpay.receiver_proofs[Len(ppOut.calculated) + 1]} :
           \E r \in {calculate(ReceiptsProfitCalculator_new(
                         rp.receiver, Proxy1, PipeReceiptsOf(rp.receiver),
                         rp.proof, CalcPayIdInfos, CalcServiceConfigs))} :
               ppOut' = [ppOut EXCEPT !.calculated = Append(@, r)]
    /\ PipeUnchanged

\* ProxySettlementAggregator::aggregate over the ProfitResults of every
\* receiver and the OverpayCheckResult
PipeAggregate ==
    /\ ppOut.overpay.res = "ok"
    /\ ppOut.aggregated.op = "none"
    /\ Len(ppOut.calculated) = Len(ppOut.overpay.receiver_proofs)
    /\ \A i \in 1..Len(ppOut.calculated) : ppOut.calculated[i].res = "ok"
    /\ \E r \in {aggregate(PipeResults, ppOut.overpay.pay_ids_root)} :
           ppOut' = [ppOut EXCEPT !.aggregated =
                         [op |-> "aggregate", res |-> r.res]]
    /\ PipeUnchanged

\* ReceiverSettler::new(receiver).process_proxy_settlement with the receipts
\* of the receiver in the order of their content keys and its ProfitResult
PipeReconcile(i) ==
    /\ i <= Len(ppOut.calculated)
    /\ ppOut.calculated[i].res = "ok"
    /\ ppOut.reconciled.op = "none"
    /\ \E receiver \in {ppOut.calculated[i].result.receiver} :
           \E r \in {process_proxy_settlement(
                         ReceiverSettler_new(receiver),
                         SortReceipts(PipeReceiptsOf(receiver)),
                         ppOut.calculated[i].result)} :
               ppOut' = [ppOut EXCEPT !.reconciled =
                             [op |-> "process_proxy_settlement", res |-> r.res]]
    /\ PipeUnchanged

NextPipeline ==
    \/ PipeProcess
    \/ PipeCalculate
    \/ PipeAggregate
    \/ \E i \in 1..MaxCalc : PipeReconcile(i)

SpecPipeline == InitPipeline /\ [][NextPipeline]_vars

\* C31: the stages compose: when process accepted the batch and calculate
\* returned a ProfitResult for every receiver over the same PayIdInfos and
\* fee schedule, aggregate succeeds, and the pay_ids_root of the
\* OverpayCheckResult is the pay_ids_root of every ProfitResult.
C31_StagesCompose ==
    ppOut.aggregated.op = "aggregate" =>
        /\ ppOut.aggregated.res = "ok"
        /\ \A i \in 1..Len(ppOut.calculated) :
               ppOut.calculated[i].result.pay_ids_root
                   = ppOut.overpay.pay_ids_root

\* C32: process_proxy_settlement, given the receipts a ProfitResult was
\* calculated from in content-key order and that ProfitResult, succeeds.
C32_ReconcileGenuine ==
    ppOut.reconciled.op = "process_proxy_settlement" =>
        ppOut.reconciled.res = "ok"

-----------------------------------------------------------------------------
(* SpecProof: a tree grows by Built-mode inserts; a MerkleProof is made out  *)
(* of the proof generate_proof returns for one of its keys, as it is or with *)
(* one part rewritten, and handed to MerkleProof::verify.                    *)

\* the tree grows into its second segment
ProofLeaves == SEGMENT_SIZE + 1

ProofVariants ==
    {"genuine", "lifted", "chunk_index", "node_index", "value", "root"}

\* The proof one level up: the chunk hash takes the place of the value, the
\* first level proof (if any) the place of the segment proof.
Lifted(proof) ==
    [value_proof |-> [value |-> proof.value_proof.chunk_hash,
                      chunk_hash |-> keccak256(<<proof.value_proof.chunk_hash>>)],
     segment_proof |->
         IF proof.level_proofs = <<>>
         THEN [chunk_index |-> 0, siblings |-> <<>>]
         ELSE [chunk_index |-> proof.level_proofs[1].node_index,
               siblings |-> proof.level_proofs[1].siblings],
     level_proofs |-> IF proof.level_proofs = <<>> THEN <<>>
                      ELSE Tail(proof.level_proofs),
     root_hash |-> proof.root_hash]

\* the proof with one part rewritten
Rewritten(proof, variant, index) ==
    CASE variant = "genuine" -> proof
      [] variant = "lifted" -> Lifted(proof)
      [] variant = "chunk_index" ->
             [proof EXCEPT !.segment_proof.chunk_index = index]
      [] variant = "node_index" ->
             IF proof.level_proofs = <<>> THEN proof
             ELSE [proof EXCEPT !.level_proofs[1].node_index = index]
      [] variant = "value" ->
             [proof EXCEPT !.value_proof =
                               [value |-> Raw(9),
                                chunk_hash |-> keccak256(<<Raw(9)>>)]]
      [] variant = "root" -> [proof EXCEPT !.root_hash = Raw(99)]

InitProof ==
    /\ vc = SegmentVC_new(1)
    /\ vcRes = "none"
    /\ StoreIdle /\ OverpayIdle /\ ProfitIdle /\ SettleIdle
    /\ ModeIdle /\ CanonIdle /\ CalcIdle /\ SignIdle /\ SettlerIdle /\ TwinIdle
    /\ PipeIdle /\ ProofIdle

\* insert of a new key in Built mode
ProofInsert(value) ==
    /\ mpOut.op = "none"
    /\ vc.total_size < ProofLeaves
    /\ vc.total_size >= 2 => value = Raw(1)
    /\ \E r \in {insert(vc, TreeKey(vc.total_size + 1), value)} :
           /\ vc' = r.vc
           /\ vcRes' = r.res
    /\ UNCHANGED <<storeVars, overpayVars, profitVars, settleVars, laterVars>>

\* generate_proof(key), the rewriting, then MerkleProof::verify
VerifyProof(n, variant, index) ==
    /\ mpOut.op = "none"
    /\ TreeKey(n) \in DOMAIN vc.indices
    /\ variant \in {"chunk_index", "node_index"} \/ index = 0
    /\ \E g \in {generate_proof(vc, TreeKey(n))} :
           /\ g.res = "ok"
           /\ \E proof \in {Rewritten(g.proof, variant, index)} :
                  /\ mp' = proof
                  /\ mpOut' = [op |-> "verify", variant |-> variant,
                               key |-> TreeKey(n),
                               res |-> MerkleProof_verify(proof)]
    /\ UNCHANGED <<storeVars, treeVars, overpayVars, profitVars, settleVars,
                   modeVars, canonVars, calcVars, signVars, settlerVars,
                   twinVars, pipeVars>>

NextProof ==
    \/ \E value \in {Raw(1), Raw(2)} : ProofInsert(value)
    \/ \E n \in 1..ProofLeaves, variant \in ProofVariants, index \in 0..MaxIndex :
           VerifyProof(n, variant, index)

SpecProof == InitProof /\ [][NextProof]_vars

\* the values stored in the slots of the tree
StoredValues(t) ==
    UNION {Range(t.segments[i].values) : i \in 1..Len(t.segments)}

\* C33: when verify returns true for a proof whose root_hash is the current
\* root of the tree, the proof's value is stored in some slot of the tree.
C33_InclusionSound ==
    (/\ mpOut.op = "verify"
     /\ mpOut.res = "true"
     /\ mp.root_hash = vc.root_hash)
        => mp.value_proof.value \in StoredValues(vc)

\* C35: verify returns true or false for every proof, also when chunk_index
\* exceeds the number of segment siblings or a node_index the number of its
\* level's siblings.
C35_VerifyTotal ==
    mpOut.op = "verify" => mpOut.res \in {"true", "false"}

-----------------------------------------------------------------------------
(* What check_hash accepts *)

\* the history proofs tried: none, and up to two of the hashes offered
HistoryProofs == {<<>>} \cup ListsOver(StoreHashes, 2)

\* C34: check_hash(h, history_proof) is true only for a hash that add_hash
\* accepted at some earlier point; a hash that was never added, such as an
\* intermediate history digest, is not accepted.
C34_HistorySound ==
    \A h \in StoreHashes, history_proof \in HistoryProofs :
        check_hash(store, h, history_proof) => h \in Range(added)

-----------------------------------------------------------------------------
(* A batch that fails *)

\* the values of every segment of the tree
SegmentValues(t) == [i \in 1..Len(t.segments) |-> t.segments[i].values]

\* C36: when insert_batch on a tree in Built mode returns an error, the tree
\* is as it was before the call: the same mapped keys, total_size, stored
\* values and root, and it is in Built mode.
C36_FailedBatchInert ==
    (/\ svcOp.op = "insert_batch"
     /\ svcOp.res \notin {"ok", "panic"}
     /\ svcPrev.building_mode = "Built")
        => /\ svc.indices = svcPrev.indices
           /\ svc.total_size = svcPrev.total_size
           /\ SegmentValues(svc) = SegmentValues(svcPrev)
           /\ svc.root_hash = svcPrev.root_hash
           /\ svc.building_mode = "Built"

-----------------------------------------------------------------------------
(* Values and roots of the past *)

\* C37: over insert and update in Built mode, verify(key, v, r) is true only
\* if at some moment the tree's root was r and the value stored at key was v.
C37_VerifyPairsMoment ==
    svcMoments.built_only =>
        \A key \in DOMAIN svc.indices, value \in ModeValues,
           history_root \in Range(svcRoots) \cup {svc.root_hash, ForeignRoot} :
            (verify(svc, key, value, history_root) = "true")
                => \E m \in svcMoments.moments :
                       /\ m.root = history_root
                       /\ key \in DOMAIN m.stored
                       /\ m.stored[key] = value

-----------------------------------------------------------------------------
(* Inputs that satisfy every rule *)

\* C38: process returns Ok with both roots for every input that satisfies the
\* four rules, a batch without receipts and an input without PayIdInfos and
\* receipts included.
C38_OkWhenRulesHold ==
    (ocOut.op = "process" /\ Rule1 /\ Rule2 /\ Rule3 /\ Rule4)
        => /\ ocOut.res = "ok"
           /\ ocOut.trees = 2

-----------------------------------------------------------------------------
(* The totals of the settlement *)

\* the sum over the integers of one field of the ProfitResults
RECURSIVE ExactTotal(_, _)
ExactTotal(profit_results, field) ==
    IF profit_results = <<>>
    THEN 0
    ELSE Head(profit_results)[field] + ExactTotal(Tail(profit_results), field)

\* C39: when aggregate returns Ok, system_profits and proxy_profits are the
\* exact sums of the ProfitResults' system_profit and proxy_profit, and
\* amount is the exact sum of all system, proxy and receiver profits; no
\* wrapped value is returned.
C39_ExactTotals ==
    Aggregated =>
        /\ stl.r.system_profits = ExactTotal(stIn.profit_results, "system_profit")
        /\ stl.r.proxy_profits = ExactTotal(stIn.profit_results, "proxy_profit")
        /\ stl.r.amount = ExactTotal(stIn.profit_results, "system_profit")
                          + ExactTotal(stIn.profit_results, "proxy_profit")
                          + ExactTotal(stIn.profit_results, "receiver_profit")

-----------------------------------------------------------------------------
(* Proofs in either mode *)

\* the keys asked for: the ones given to insert and one from a batch
AskedKeys == ModeKeys \cup {Raw(3)}

\* C40: in every reachable state of the tree, Building mode with staged
\* inserts included, generate_proof returns a proof that verifies for a mapped
\* key and KeyNotFound for an unmapped one, and never aborts.
C40_ProofInEveryMode ==
    \A key \in AskedKeys :
        LET g == generate_proof(svc, key)
        IN  IF key \in DOMAIN svc.indices
            THEN g.res = "ok" /\ MerkleProof_verify(g.proof) = "true"
            ELSE g.res = "KeyNotFound"

====
